---- MODULE Spec2Model ----
(***************************************************************************)
(* Order-to-notification pipeline of the e-commerce application:           *)
(*   order service        OrderService.createOrder, EventPublisher         *)
(*   notification service OrderEventConsumer, OrderEventHandler,           *)
(*                        NotificationService                              *)
(* Strings that JavaScript treats as falsy or absent (undefined, null, "") *)
(* are written "".  Numbers that are falsy or absent are written 0.        *)
(***************************************************************************)
EXTENDS Integers, Sequences, FiniteSets, TLC

VARIABLES
  topic,                \* the partition log of order-events: wire records
  offset,               \* index in topic of the next record the runner delivers
  pc,                   \* position of the per-record callback
  cur,                  \* the record being processed: [at, event]
  processedEvents,      \* OrderEventHandler.processedEvents, in insertion order
  notificationHistory,  \* NotificationService.notificationHistory: orderId -> records
  callbacks,            \* log of the completed eachMessage callbacks
  stamp,                \* number of distinct events handed to handle directly
  recent,               \* fingerprints of the latest events handed to handle
  orderPc,              \* position of OrderService.createOrder
  req,                  \* the createOrder call in progress
  orders,               \* the orders the repository has stored
  sent,                 \* the messages producer.send has delivered to order-events
  calls,                \* number of createOrder calls made
  lastCall,             \* the createOrder call that completed last
  isRunning,            \* OrderEventConsumer.isRunning
  consumer,             \* OrderEventConsumer.consumer: the broker client's consumer
  life,                 \* position of the start() or stop() call in progress
  startCall,            \* the start() call: the steps it took and how it ended
  stopCall,             \* the stop() call: when it was made and how it ended
  notificationService,  \* the NotificationService class the application loaded
  health,               \* what the last checkHealth() call probed and reported
  checked,              \* the last EventValidator.validate call
  pauseCalls,           \* the pause() and resume() calls made so far
  parseCall,            \* the last parseMessage call and what it returned
  handleCalls,          \* the handle calls made so far, those still awaiting included
  failed,               \* fingerprints of the events whose email send failed
  batchRun,             \* the processBatch call: its batch, its position, what it did
  replaced,             \* the broker consumers a later start() took the place of
  app,                  \* NotificationServiceApp: isStarted, its start() and stop() calls
  appHealth             \* the health object of the last performHealthCheck()

vars == <<topic, offset, pc, cur, processedEvents,
          notificationHistory, callbacks, stamp, recent,
          orderPc, req, orders, sent, calls, lastCall,
          isRunning, consumer, life, startCall, stopCall,
          notificationService, health, checked, pauseCalls, parseCall,
          handleCalls, failed, batchRun, replaced, app, appHealth>>

orderVars == <<orderPc, req, orders, sent, calls, lastCall>>

recordVars == <<topic, offset, pc, cur, processedEvents, notificationHistory,
                callbacks, stamp, recent>>

lifeVars == <<isRunning, consumer, life, startCall, stopCall>>

\* NotificationServiceApp: its own state and its last health check.
appVars == <<app, appHealth>>

\* The calls that the claims about overlapping and repeated calls follow.
callVars == <<handleCalls, failed, batchRun, replaced, appVars>>

wiring == <<notificationService, health, checked, pauseCalls, parseCall, callVars>>

notifyVars == <<recordVars, lifeVars, wiring>>

----------------------------------------------------------------------------
(* Bounds of the model *)

MaxDeliveries == 2
MaxCalls == 1
MaxPublished == 2
MaxItems == 2
ExtraFresh == 2
RecentWindow == 2

(* Program constants *)

DedupCap == 1000
DedupKeep == 500
numPartitions == 3

----------------------------------------------------------------------------
(* Values *)

\* object: the value is a non-null object.
Event(type, orderId, timestamp, dataIsObject) ==
  [object |-> TRUE, type |-> type, timestamp |-> timestamp,
   data |-> [object |-> dataIsObject, orderId |-> orderId]]

NoEvent == Event("", "", "", FALSE)

\* undefined, null, a number, a string: reading a field of it gives nothing.
Primitive == [NoEvent EXCEPT !.object = FALSE]

\* Envelopes with every field the handler looks at.
WellFormedEvents ==
  { Event("ORDER_CREATED", "o1", "t1", TRUE),
    Event("ORDER_CREATED", "o1", "t2", TRUE),
    Event("ORDER_CREATED", "o2", "t1", TRUE),
    Event("ORDER_CANCELLED", "o1", "t1", TRUE) }

\* Envelopes with one field absent.
DefectiveEvents ==
  { Event("ORDER_CREATED", "o1", "", TRUE),   \* no timestamp
    Event("ORDER_CREATED", "", "t1", TRUE) }  \* data without orderId

Events == WellFormedEvents \cup DefectiveEvents

\* A wire record.  json tells what JSON.parse makes of message.value:
\* "invalid" (not JSON), "primitive" (null, a number, a string) or "object".
WireRecord(json, key, event) == [json |-> json, key |-> key, event |-> event]

WireRecords ==
  { WireRecord("object", e.data.orderId, e) : e \in Events }
    \cup { WireRecord("invalid", "o1", NoEvent), WireRecord("primitive", "o1", NoEvent) }

----------------------------------------------------------------------------
(* Order service: values *)

Item(id, title, quantity, price) ==
  [id |-> id, title |-> title, quantity |-> quantity, price |-> price]

\* Items that pass the per-item checks, and items that fail one of them.
GoodItems == { Item("p1", "Widget", 1, 3), Item("p2", "Gadget", 2, 5) }

BadItems ==
  { Item("", "Widget", 1, 3),       \* no product id
    Item("p1", "Widget", 0, 3),     \* quantity 0 or absent
    Item("p1", "Widget", -1, 3),    \* negative quantity
    Item("p1", "Widget", 1, 0),     \* price 0 or absent
    Item("p1", "Widget", 1, -5) }   \* negative price

Items == GoodItems \cup BadItems

\* The item lists of up to MaxItems items.
ItemLists == UNION { [1..n -> Items] : n \in 0..MaxItems }

\* The body of POST /orders.  totalAmount is a total the client may supply
\* (0: none supplied); createOrder does not read it.
OrderData(userId, items, customerEmail, customerName, totalAmount) ==
  [userId |-> userId, items |-> items, customerEmail |-> customerEmail,
   customerName |-> customerName, totalAmount |-> totalAmount]

OrderInputs ==
  { OrderData(h[1], items, h[2], h[3], total) :
      h \in { <<"u1", "a@b.com", "A">>, <<"", "a@b.com", "A">>,
              <<"u1", "", "A">>, <<"u1", "a@b.com", "">> },
      items \in ItemLists,
      total \in {0, 999} }

NoOrderData == OrderData("", << >>, "", "", 0)

NoOrder ==
  [orderId |-> "", userId |-> "", items |-> << >>, totalAmount |-> 0,
   customerEmail |-> "", customerName |-> "", status |-> ""]

NoMessage == [topic |-> "", key |-> "", event |-> [type |-> "", timestamp |-> "",
              version |-> "", source |-> "", data |-> NoOrder]]

\* A createOrder call: its input, the steps it has taken, what it handed to
\* the repository and to the producer, and how it ended.
Call(input, steps, toSave, saved, message, sends, outcome, error) ==
  [input |-> input, steps |-> steps, toSave |-> toSave, saved |-> saved,
   message |-> message, sends |-> sends, outcome |-> outcome, error |-> error]

NoOrderCall == Call(NoOrderData, << >>, NoOrder, NoOrder, NoMessage, 0, "none", "")

----------------------------------------------------------------------------
(* OrderService *)

\* The index of the first item failing a per-item check, 0 when none fails.
RECURSIVE firstBadItem(_, _)
firstBadItem(items, i) ==
  IF i > Len(items) THEN 0
  ELSE IF \/ items[i].id = ""
          \/ items[i].title = ""
          \/ items[i].quantity = 0 \/ items[i].quantity <= 0
          \/ items[i].price = 0 \/ items[i].price <= 0
       THEN i
       ELSE firstBadItem(items, i + 1)

itemError(item, index) ==
  LET n == "Item " \o ToString(index) \o ": "
  IN  IF item.id = "" THEN n \o "Product ID is required"
      ELSE IF item.title = "" THEN n \o "Product title is required"
      ELSE IF item.quantity = 0 \/ item.quantity <= 0
           THEN n \o "Valid quantity is required"
      ELSE n \o "Valid price is required"

\* A validation that checks the order's fields and not its items.
validateOrderDataSkipsItems(orderData) ==
  IF orderData.userId = "" THEN "User ID is required"
  ELSE IF Len(orderData.items) = 0 THEN "Order must contain at least one item"
  ELSE IF orderData.customerEmail = "" THEN "Customer email is required"
  ELSE IF orderData.customerName = "" THEN "Customer name is required"
  ELSE ""

\* validateOrderData: the message of the error it throws, "" when it returns.
validateOrderData(orderData) ==
  IF orderData.userId = "" THEN "User ID is required"
  ELSE IF Len(orderData.items) = 0 THEN "Order must contain at least one item"
  ELSE IF orderData.customerEmail = "" THEN "Customer email is required"
  ELSE IF orderData.customerName = "" THEN "Customer name is required"
  ELSE LET bad == firstBadItem(orderData.items, 1)
       IN  IF bad = 0 THEN "" ELSE itemError(orderData.items[bad], bad)

\* items.reduce((total, item) => total + item.quantity * item.price, 0),
\* from the accumulator total at item i on.
RECURSIVE reduceTotal(_, _, _)
reduceTotal(items, i, total) ==
  IF i > Len(items) THEN total
  ELSE reduceTotal(items, i + 1, total + (items[i].quantity * items[i].price))

calculateTotal(items) == reduceTotal(items, 1, 0)

\* An order whose total is the client's when the client supplies one.
orderToSaveTrustsClient(orderData) ==
  [orderId |-> "", userId |-> orderData.userId, items |-> orderData.items,
   totalAmount |-> IF orderData.totalAmount # 0 THEN orderData.totalAmount
                   ELSE calculateTotal(orderData.items),
   customerEmail |-> orderData.customerEmail,
   customerName |-> orderData.customerName, status |-> "PENDING"]

\* An order stored as already confirmed.
orderToSaveConfirmed(orderData) ==
  [orderId |-> "", userId |-> orderData.userId, items |-> orderData.items,
   totalAmount |-> calculateTotal(orderData.items),
   customerEmail |-> orderData.customerEmail,
   customerName |-> orderData.customerName, status |-> "CONFIRMED"]

\* createOrder, lines 112-119
orderToSave(orderData) ==
  [orderId |-> "", userId |-> orderData.userId, items |-> orderData.items,
   totalAmount |-> calculateTotal(orderData.items),
   customerEmail |-> orderData.customerEmail,
   customerName |-> orderData.customerName, status |-> "PENDING"]

\* orderRepository.save: the stored order carries the identifier the
\* repository assigns.
save(order, stored) ==
  [order EXCEPT !.orderId = "ORD-" \o ToString(Len(stored) + 1)]

\* order.toEventData(): the stored order's fields.
toEventData(order) == order

----------------------------------------------------------------------------
(* EventPublisher *)

\* A publisher that keys the record by the user.
publishOrderCreatedKeyedByUser(order, now) ==
  [topic |-> "order-events", key |-> order.userId,
   event |-> [type |-> "ORDER_CREATED", timestamp |-> now, version |-> "1.0",
              source |-> "order-service", data |-> toEventData(order)]]

\* publishOrderCreated and publishEvent up to producer.send: the message.
publishOrderCreated(order, now) ==
  [topic |-> "order-events", key |-> order.orderId,
   event |-> [type |-> "ORDER_CREATED", timestamp |-> now, version |-> "1.0",
              source |-> "order-service", data |-> toEventData(order)]]

\* publishEvent, lines 58-62: the message of the error it throws.
publishError(cause) == "Event publishing failed: " \o cause

----------------------------------------------------------------------------
(* OrderService.createOrder, one action per await *)

\* A createOrder that removes the stored order when the publish failed.
afterPublishFailureRollsBack(stored) == SubSeq(stored, 1, Len(stored) - 1)

\* createOrder, lines 133-136: the catch logs and throws the error again;
\* the repository is left as it is.
afterPublishFailure(stored) == stored

\* A catch that replaces the error by one of its own.
rethrowGeneric(error) == "Failed to create order"

\* createOrder, lines 131-134: the catch logs the error and throws it again.
rethrow(error) == error

CallEnds(call) ==
  /\ lastCall' = call
  /\ orderPc' = "idle"
  /\ req' = NoOrderCall

\* OrderController.createOrder answers the request (201 with the order, or
\* 400 with the error's message); the next request is taken after that.
Respond ==
  /\ orderPc = "idle"
  /\ lastCall # NoOrderCall
  /\ lastCall' = NoOrderCall
  /\ UNCHANGED <<orderPc, req, orders, sent, calls>>
  /\ UNCHANGED notifyVars

\* createOrder(orderData) up to "await this.orderRepository.save", for a
\* request body out of inputs.
CreateOrderFrom(inputs) ==
  /\ orderPc = "idle"
  /\ lastCall = NoOrderCall
  /\ calls < MaxCalls
  /\ calls' = calls + 1
  /\ \E orderData \in inputs :
       LET error == validateOrderData(orderData)
       IN  IF error # ""
           THEN CallEnds(Call(orderData, <<"validate">>, NoOrder, NoOrder, NoMessage,
                              0, "failed", error))
           ELSE /\ req' = Call(orderData, <<"validate", "calculateTotal", "save">>,
                               orderToSave(orderData), NoOrder, NoMessage, 0, "none", "")
                /\ orderPc' = "saving"
                /\ UNCHANGED lastCall
  /\ UNCHANGED <<orders, sent>>
  /\ UNCHANGED notifyVars

CreateOrder == CreateOrderFrom(OrderInputs)

\* orderRepository.save settles; on success createOrder goes on to
\* "await this.eventPublisher.publishOrderCreated", which calls producer.send.
SaveReturns(ok) ==
  /\ orderPc = "saving"
  /\ IF ok
     THEN LET savedOrder == save(req.toSave, orders)
          IN  /\ orders' = Append(orders, savedOrder)
              /\ req' = [req EXCEPT !.saved = savedOrder,
                                    !.steps = Append(@, "publish"),
                                    !.message = publishOrderCreated(savedOrder,
                                                                    ToString(calls)),
                                    !.sends = @ + 1]
              /\ orderPc' = "publishing"
              /\ UNCHANGED lastCall
     ELSE /\ CallEnds([req EXCEPT !.outcome = "failed", !.error = rethrow("save failed")])
          /\ UNCHANGED orders
  /\ UNCHANGED <<sent, calls>>
  /\ UNCHANGED notifyVars

\* producer.send settles.
ProducerSendReturns(ok) ==
  /\ orderPc = "publishing"
  /\ IF ok
     THEN /\ sent' = Append(sent, req.message)
          /\ CallEnds([req EXCEPT !.outcome = IF req.saved # NoOrder THEN "created"
                                              ELSE "published"])
          /\ UNCHANGED orders
     ELSE /\ orders' = afterPublishFailure(orders)
          /\ CallEnds([req EXCEPT !.outcome = "failed",
                                  !.error = rethrow(publishError("send failed"))])
          /\ UNCHANGED sent
  /\ UNCHANGED calls
  /\ UNCHANGED notifyVars

----------------------------------------------------------------------------
(* OrderEventHandler *)

\* A check that does not look at data.
isValidEventIgnoresData(event) ==
  /\ event.object
  /\ event.type # ""
  /\ event.timestamp # ""

isValidEvent(event) ==
  /\ event.object
  /\ event.type # ""
  /\ event.timestamp # ""
  /\ event.data.object

DateNow == "now"

\* A fingerprint without the timestamp.
generateEventIdWithoutTimestamp(event) ==
  LET orderId == IF event.data.orderId # "" THEN event.data.orderId ELSE "unknown"
  IN  event.type \o "-" \o orderId

generateEventId(event) ==
  LET orderId   == IF event.data.orderId # "" THEN event.data.orderId ELSE "unknown"
      timestamp == IF event.timestamp # "" THEN event.timestamp ELSE DateNow
  IN  event.type \o "-" \o orderId \o "-" \o timestamp

has(set, id) == \E i \in 1..Len(set) : set[i] = id

\* Set.prototype.add keeps insertion order and ignores a value already present.
add(set, id) == IF has(set, id) THEN set ELSE Append(set, id)

\* A slice that keeps the oldest entries: slice(0, 500).
sliceFirst(arr, n) ==
  IF Len(arr) <= n THEN arr ELSE SubSeq(arr, 1, n)

\* eventsArray.slice(-500)
sliceLast(arr, n) ==
  IF Len(arr) <= n THEN arr ELSE SubSeq(arr, Len(arr) - n + 1, Len(arr))

\* A handler that never records the fingerprint.
markProcessedForgets(set, id) == set

\* A clean-up that clears the set and adds nothing back.
markProcessedClears(set, id) ==
  LET added == add(set, id)
  IN  IF Len(added) > DedupCap THEN << >> ELSE added

\* A clean-up that keeps one fingerprint fewer than the 500 of slice(-500).
markProcessedKeepsFewer(set, id) ==
  LET added == add(set, id)
  IN  IF Len(added) > DedupCap THEN sliceLast(added, DedupKeep - 1) ELSE added

\* lines 41-49 of handle: mark as processed, then clean up
markProcessed(set, id) ==
  LET added == add(set, id)
  IN  IF Len(added) > DedupCap THEN sliceLast(added, DedupKeep) ELSE added

\* What handle does before its only await:
\* "invalid", "duplicate" and "ignored" return at once, "send" awaits
\* handleOrderCreated.
\* A handler that sends a confirmation for every type of event.
handleEntryOfAnyType(set, event) ==
  IF ~isValidEvent(event) THEN "invalid"
  ELSE IF has(set, generateEventId(event)) THEN "duplicate"
  ELSE "send"

handleEntry(set, event) ==
  IF ~isValidEvent(event) THEN "invalid"
  ELSE IF has(set, generateEventId(event)) THEN "duplicate"
  ELSE IF event.type = "ORDER_CREATED" THEN "send"
  ELSE "ignored"

----------------------------------------------------------------------------
(* NotificationService *)

\* An email send without the try/catch around it.
confirmationOutcomeNoCatch(emailOutcome) ==
  IF emailOutcome = "failed" THEN "raised" ELSE "returned"

\* sendOrderConfirmation, lines 26-41: the try/catch around the email send.
\* How the call ends, given how emailService.sendOrderConfirmation ended.
confirmationOutcome(emailOutcome) == "returned"

\* sendOrderConfirmation: the results object, given how emailService behaved.
OrderConfirmationResults(orderData, emailOutcome) ==
  [orderId |-> orderData.orderId,
   notifications |->
     << [type |-> "email",
         status |-> IF emailOutcome = "sent" THEN "success" ELSE "failed"] >>]

storeNotificationHistory(history, orderId, type, result) ==
  LET old == IF orderId \in DOMAIN history THEN history[orderId] ELSE << >>
  IN  [k \in DOMAIN history \cup {orderId} |->
         IF k = orderId THEN Append(old, [type |-> type, result |-> result])
         ELSE history[k]]

\* The history after sendOrderConfirmation(orderData).
sendOrderConfirmation(history, orderData, emailOutcome) ==
  storeNotificationHistory(history, orderData.orderId, "ORDER_CONFIRMATION",
                           OrderConfirmationResults(orderData, emailOutcome))

\* services/NotificationService.js declares the class twice: lines 5-272
\* send the email and store the record in the history; lines 279-338 send
\* the email and store nothing.  Which of the two declarations the
\* application gets is not decided by the source.
NotificationServices == {"NotificationService", "NotificationServiceEmailOnly"}

\* The history after sendOrderConfirmation(orderData) of the second
\* declaration, lines 290-313: it returns the results and stores nothing.
sendOrderConfirmationEmailOnly(history, orderData, emailOutcome) == history

\* The history after sendOrderConfirmation(orderData) of the loaded class.
historyAfterConfirmation(class, history, orderData, emailOutcome) ==
  IF class = "NotificationService"
  THEN sendOrderConfirmation(history, orderData, emailOutcome)
  ELSE sendOrderConfirmationEmailOnly(history, orderData, emailOutcome)

\* How a sender's isHealthy() can end: it returns true, returns false, or raises.
Probes == {"healthy", "unhealthy", "raises"}

\* The services breakdown of a report that has none.
NoBreakdown == << >>

\* One checkHealth() call: the senders it probed, in order, how it ended,
\* and the status and the services breakdown of the object it returned.
HealthReport(probed, outcome, status, services) ==
  [probed |-> probed, outcome |-> outcome, status |-> status, services |-> services]

NoReport == HealthReport(<< >>, "none", "none", NoBreakdown)

\* The report of the catch branch: status 'unhealthy' and the error message.
unhealthyReport(probed) == HealthReport(probed, "returned", "unhealthy", NoBreakdown)

\* checkHealth, lines 251-271: the email probe, then the SMS probe; a probe
\* that raises ends the try block.
checkHealth(emailHealth, smsHealth) ==
  IF emailHealth = "raises" THEN unhealthyReport(<<"email">>)
  ELSE IF smsHealth = "raises" THEN unhealthyReport(<<"email", "sms">>)
  ELSE HealthReport(<<"email", "sms">>, "returned",
         IF emailHealth = "healthy" /\ smsHealth = "healthy"
         THEN "healthy" ELSE "degraded",
         [email |-> emailHealth, sms |-> smsHealth])

\* checkHealth of the second declaration, lines 319-337: the email probe only.
checkHealthEmailOnly(emailHealth) ==
  IF emailHealth = "raises" THEN unhealthyReport(<<"email">>)
  ELSE HealthReport(<<"email">>, "returned",
         IF emailHealth = "healthy" THEN "healthy" ELSE "unhealthy",
         [email |-> emailHealth])

\* checkHealth() of the loaded class.
checkHealthOf(class, emailHealth, smsHealth) ==
  IF class = "NotificationService"
  THEN checkHealth(emailHealth, smsHealth)
  ELSE checkHealthEmailOnly(emailHealth)

getNotificationHistory(history, orderId) ==
  IF orderId \in DOMAIN history THEN history[orderId] ELSE << >>

----------------------------------------------------------------------------
(* OrderEventHandler, after the await *)

\* handleOrderCreated: the catch logs and throws the error again.
handleOrderCreated(serviceOutcome) == serviceOutcome

\* A handle whose catch logs and returns.
handleSwallows(stepOutcome) == "returned"

\* handle: the catch logs and throws the error again.
handle(stepOutcome) == stepOutcome

----------------------------------------------------------------------------
(* OrderEventConsumer and the runner of the broker client *)

\* parseMessage: JSON.parse throws on text that is not JSON, and the
\* assignment event.metadata = ... throws on a value that is not an object.
parseMessage(message) ==
  IF message.json = "object" THEN [ok |-> TRUE, event |-> message.event]
  ELSE [ok |-> FALSE, event |-> NoEvent]

\* processMessage: the catch logs and throws the error again.
processMessage(stepOutcome) == stepOutcome

\* A callback that throws what processMessage threw.
eachMessageRethrows(processOutcome) == processOutcome

\* eachMessage: the catch logs and does not throw.  What the callback gives
\* back to the runner, given how processMessage ended.
eachMessage(processOutcome) == "returned"

\* The runner resolves the offset of a record whose callback returned and
\* fetches the record again when the callback raised.
resolveOffset(at, callbackOutcome) ==
  IF callbackOutcome = "returned" THEN at + 1 ELSE at

NoResults == [orderId |-> "", notifications |-> << >>]

\* One handle call, for the log.  entry = "none": handle was not called.
HandleCall(event, entry, outcome, email, results) ==
  [event |-> event, entry |-> entry, outcome |-> outcome,
   email |-> email, results |-> results]

NoCall == HandleCall(NoEvent, "none", "none", "none", NoResults)

\* The record the callback is working on: its offset, the parsed event, how
\* heartbeat() ended for it, and how often handle was invoked for it.
Record(at, event, heartbeat, handles) ==
  [at |-> at, event |-> event, heartbeat |-> heartbeat, handles |-> handles]

NoRecord == Record(0, NoEvent, "none", 0)

\* processMessage, line 90: a heartbeat() that rejects throws at the await,
\* before handle is reached.
heartbeatOutcomeIgnored(ok) == "returned"

heartbeatOutcome(ok) == IF ok THEN "returned" ELSE "raised"

\* A consumer that calls the handler again when it raised.
retryLocallyOnFailure(outcome) == outcome = "raised"

\* processMessage, lines 104-120, and eachMessage, lines 51-55: neither
\* catch calls the handler again.
retryLocally(outcome) == FALSE

\* The per-record callback ends: the runner takes its outcome.
CallbackEnds(at, heartbeat, handles, call, stepOutcome) ==
  LET process  == processMessage(stepOutcome)
      callback == eachMessage(process)
  IN  /\ callbacks' = Append(callbacks,
             [at |-> at, heartbeat |-> heartbeat, handles |-> handles, call |-> call,
              process |-> process, callback |-> callback])
      /\ offset' = resolveOffset(at, callback)
      /\ pc' = "idle"
      /\ cur' = NoRecord

\* processBatch, lines 176-185: the catch logs and breaks out of the loop,
\* so the index after a failure at message i of n is past the end.
\* A catch without the break.
afterCatchContinues(i, n) == i + 1

afterCatch(i, n) == n + 1

\* One processBatch call: the messages of the batch, the index of the
\* message the loop is at (0: not called), and the calls it made in order.
BatchRun(messages, next, trace) ==
  [messages |-> messages, next |-> next, trace |-> trace]

NoBatchRun == BatchRun(<< >>, 0, << >>)

\* A call processBatch made: processMessage(message) and how it ended, or
\* resolveOffset(message.offset).
BatchCall(op, at, outcome) == [op |-> op, at |-> at, outcome |-> outcome]

----------------------------------------------------------------------------
(* OrderEventConsumer: start, stop, pause, resume *)

\* The consumer of the broker client: the group it joins, whether it is
\* connected, the topics it subscribed to, whether its runner delivers
\* records, and whether fetching is paused.
Consumer(groupId, connected, topics, running, paused) ==
  [groupId |-> groupId, connected |-> connected, topics |-> topics,
   running |-> running, paused |-> paused]

\* this.consumer = null
null == Consumer("", FALSE, {}, FALSE, FALSE)

\* this.kafka.consumer({groupId: 'notification-service-group', ...})
NewConsumer == Consumer("notification-service-group", FALSE, {}, FALSE, FALSE)

\* this.topics
topics == {"order-events"}

LifecycleCall(steps, during, outcome) ==
  [steps |-> steps, during |-> during, outcome |-> outcome]

NoLifecycleCall == LifecycleCall(<< >>, "none", "none")

\* isHealthy()
isHealthy == isRunning /\ consumer # null

\* A start() whose catch leaves isRunning as it is.
startFailureKeepsRunning(running) == running

\* start, lines 59-62: the catch sets isRunning to false.
startFailure(running) == FALSE

\* A disconnect that does not wait for the callback in progress.
disconnectSettlesAtOnce(position) == TRUE

\* stop, line 200: consumer.disconnect() first stops the runner, which lets
\* the eachMessage callback in progress settle; it settles once no callback
\* is in progress.
disconnectSettles(position) == position = "idle"

\* The runner takes the next record: it was started by run(), fetching is
\* not paused, and no disconnect is under way.
RunnerFetches == consumer.running /\ ~consumer.paused /\ life # "disconnecting"

\* start() fails at the step it is waiting for.
StartFails ==
  /\ isRunning' = startFailure(isRunning)
  /\ life' = "idle"
  /\ startCall' = [startCall EXCEPT !.outcome = "raised"]
  /\ UNCHANGED <<consumer, stopCall>>

\* start() up to "await this.consumer.connect()".  The application calls
\* start() once, on a consumer that has no client yet.
Start ==
  /\ life = "idle"
  /\ consumer = null
  /\ startCall = NoLifecycleCall
  /\ stopCall = NoLifecycleCall
  /\ consumer' = NewConsumer
  /\ life' = "connecting"
  /\ startCall' = LifecycleCall(<<"connect">>, pc, "none")
  /\ UNCHANGED <<isRunning, stopCall>>
  /\ UNCHANGED recordVars
  /\ UNCHANGED orderVars
  /\ UNCHANGED wiring

\* connect() settles; on success start() goes on to "await subscribe".
ConnectReturns(ok) ==
  /\ life = "connecting"
  /\ IF ok
     THEN /\ consumer' = [consumer EXCEPT !.connected = TRUE]
          /\ life' = "subscribing"
          /\ startCall' = [startCall EXCEPT !.steps = Append(@, "subscribe")]
          /\ UNCHANGED <<isRunning, stopCall>>
     ELSE StartFails
  /\ UNCHANGED recordVars
  /\ UNCHANGED orderVars
  /\ UNCHANGED wiring

\* subscribe() settles; on success start() sets isRunning and goes on to
\* "await this.consumer.run".
SubscribeReturns(ok) ==
  /\ life = "subscribing"
  /\ IF ok
     THEN /\ consumer' = [consumer EXCEPT !.topics = topics]
          /\ isRunning' = TRUE
          /\ life' = "starting"
          /\ startCall' = [startCall EXCEPT !.steps = @ \o <<"isRunning", "run">>]
          /\ UNCHANGED stopCall
     ELSE StartFails
  /\ UNCHANGED recordVars
  /\ UNCHANGED orderVars
  /\ UNCHANGED wiring

\* run() settles: on success the runner delivers records to eachMessage.
RunReturns(ok) ==
  /\ life = "starting"
  /\ IF ok
     THEN /\ consumer' = [consumer EXCEPT !.running = TRUE]
          /\ life' = "idle"
          /\ startCall' = [startCall EXCEPT !.outcome = "returned"]
          /\ UNCHANGED <<isRunning, stopCall>>
     ELSE StartFails
  /\ UNCHANGED recordVars
  /\ UNCHANGED orderVars
  /\ UNCHANGED wiring

\* stop() up to "await this.consumer.disconnect()".  The application calls
\* stop() once, from its shutdown handlers, and exits when it settled.
Stop ==
  /\ life = "idle"
  /\ stopCall.outcome = "none"
  /\ isRunning' = FALSE
  /\ IF consumer # null
     THEN /\ life' = "disconnecting"
          /\ stopCall' = LifecycleCall(<<"isRunning", "disconnect">>, pc, "none")
     ELSE /\ life' = "idle"
          /\ stopCall' = LifecycleCall(<<"isRunning">>, pc, "returned")
  /\ UNCHANGED <<consumer, startCall>>
  /\ UNCHANGED recordVars
  /\ UNCHANGED orderVars
  /\ UNCHANGED wiring

\* disconnect() settles.  The runner is stopped either way; a disconnect
\* that raised leaves the connection as it was.
DisconnectReturns(ok) ==
  /\ life = "disconnecting"
  /\ disconnectSettles(pc)
  /\ consumer' = [consumer EXCEPT !.running = FALSE,
                                  !.connected = IF ok THEN FALSE ELSE @,
                                  !.topics = IF ok THEN {} ELSE @]
  /\ life' = "idle"
  /\ stopCall' = [stopCall EXCEPT !.outcome = IF ok THEN "returned" ELSE "raised"]
  /\ UNCHANGED <<isRunning, startCall>>
  /\ UNCHANGED recordVars
  /\ UNCHANGED orderVars
  /\ UNCHANGED wiring

\* A pause() or resume() without the check of lines 235 and 246.
appliesAlways(client, running) == TRUE

\* pause() and resume(), lines 235 and 246: if (this.consumer && this.isRunning).
applies(client, running) == client # null /\ running

\* pause(): consumer.pause for the topic when the consumer exists and
\* isRunning is set, nothing otherwise.
Pause ==
  /\ life = "idle"
  /\ consumer' = IF applies(consumer, isRunning)
                 THEN [consumer EXCEPT !.paused = TRUE] ELSE consumer
  /\ UNCHANGED <<isRunning, life, startCall, stopCall>>
  /\ UNCHANGED recordVars
  /\ UNCHANGED orderVars
  /\ UNCHANGED <<notificationService, health, checked, parseCall, callVars>>

\* resume(): consumer.resume for the topic when the consumer exists and
\* isRunning is set, nothing otherwise.
Resume ==
  /\ life = "idle"
  /\ consumer' = IF applies(consumer, isRunning)
                 THEN [consumer EXCEPT !.paused = FALSE] ELSE consumer
  /\ UNCHANGED <<isRunning, life, startCall, stopCall>>
  /\ UNCHANGED recordVars
  /\ UNCHANGED orderVars
  /\ UNCHANGED <<notificationService, health, checked, parseCall, callVars>>

----------------------------------------------------------------------------
(* NotificationServiceApp *)

\* The application: this.isStarted, where its start() call stands ("none",
\* "testing" the broker connection, starting the "consumer", "returned"),
\* where its stop() calls stand ("none", "disconnecting"), how many shutdown
\* signals arrived, and whether the process has exited.
App(started, starting, stopping, signals, exited) ==
  [isStarted |-> started, start |-> starting, stop |-> stopping,
   signals |-> signals, exited |-> exited]

\* The constructor: isStarted = false, the shutdown handlers are bound.
NewApp == App(FALSE, "none", "none", 0, FALSE)

\* performHealthCheck, line 176: the aggregate status.
aggregate(started, consumerHealthy) ==
  IF started /\ consumerHealthy THEN "UP" ELSE "DOWN"

\* performHealthCheck, lines 184-189: the components.
components(consumerHealthy) ==
  [kafkaConsumer |-> IF consumerHealthy THEN "UP" ELSE "DOWN",
   emailService |-> "UP", smsService |-> "UP", notificationService |-> "UP"]

\* The health object, with what held when it was made: isStarted,
\* isHealthy(), and whether stop() had begun.
Health(status, parts, started, consumerHealthy, stopBegun) ==
  [status |-> status, components |-> parts, isStarted |-> started,
   consumerHealthy |-> consumerHealthy, stopBegun |-> stopBegun]

NoHealth == Health("none", components(FALSE), FALSE, FALSE, FALSE)

----------------------------------------------------------------------------
(* The per-record loop *)

\* A producer appends a record to the partition.  The consumer reads only
\* topic[offset], so the log is extended when the consumer has caught up
\* with it and is between two records.
BrokerAppend(w) ==
  /\ pc = "idle"
  /\ offset > Len(topic)
  /\ Len(callbacks) < MaxDeliveries
  /\ topic' = Append(topic, w)
  /\ UNCHANGED <<offset, pc, cur, processedEvents,
                 notificationHistory, callbacks, stamp, recent>>
  /\ UNCHANGED orderVars
  /\ UNCHANGED wiring
  /\ UNCHANGED lifeVars

\* At-least-once delivery: after a restart or a rebalance the group resumes
\* from an offset committed earlier.
BrokerRedeliver ==
  /\ pc = "idle"
  /\ Len(callbacks) < MaxDeliveries
  /\ offset > 1
  /\ offset' = offset - 1
  /\ UNCHANGED <<topic, pc, cur, processedEvents, notificationHistory, callbacks,
                 stamp, recent>>
  /\ UNCHANGED orderVars
  /\ UNCHANGED wiring
  /\ UNCHANGED lifeVars

\* eachMessage -> processMessage up to "await heartbeat()".
ProcessMessage ==
  /\ pc = "idle"
  /\ RunnerFetches
  /\ offset <= Len(topic)
  /\ Len(callbacks) < MaxDeliveries
  /\ LET parsed == parseMessage(topic[offset])
     IN  IF parsed.ok
         THEN /\ cur' = Record(offset, parsed.event, "none", 0)
              /\ pc' = "heartbeat"
              /\ UNCHANGED <<offset, callbacks>>
         ELSE CallbackEnds(offset, "none", 0, NoCall, "raised")
  /\ UNCHANGED <<topic, processedEvents, notificationHistory,
                 stamp, recent>>
  /\ UNCHANGED orderVars
  /\ UNCHANGED wiring
  /\ UNCHANGED lifeVars

\* heartbeat() settles; on success handle(event) runs up to its await.
HeartbeatReturns(ok) ==
  /\ pc = "heartbeat"
  /\ LET beat == IF ok THEN "ok" ELSE "failed"
     IN  IF heartbeatOutcome(ok) = "raised"
         THEN CallbackEnds(cur.at, beat, 0, NoCall, "raised")
         ELSE LET entry == handleEntry(processedEvents, cur.event)
              IN  IF entry = "send"
                  THEN /\ pc' = "sending"
                       /\ cur' = [cur EXCEPT !.heartbeat = beat, !.handles = @ + 1]
                       /\ UNCHANGED <<offset, callbacks>>
                  ELSE CallbackEnds(cur.at, beat, cur.handles + 1,
                         HandleCall(cur.event, entry, "returned", "none", NoResults),
                         "returned")
  /\ UNCHANGED <<topic, processedEvents, notificationHistory,
                 stamp, recent>>
  /\ UNCHANGED orderVars
  /\ UNCHANGED wiring
  /\ UNCHANGED lifeVars

\* notificationService.sendOrderConfirmation settles.  service = "rejects"
\* is an injected notification service whose promise rejects; otherwise
\* email tells how emailService.sendOrderConfirmation ended.  The SMS
\* sender is not called on this path, so its behaviour is no input.
SendReturns(service, email) ==
  /\ pc = "sending"
  /\ LET serviceOutcome ==
           IF service = "rejects" THEN "raised" ELSE confirmationOutcome(email)
         outcome == handle(handleOrderCreated(serviceOutcome))
         results == IF serviceOutcome = "returned"
                    THEN OrderConfirmationResults(cur.event.data, email)
                    ELSE NoResults
     IN  /\ notificationHistory' =
              IF service = "rejects" THEN notificationHistory
              ELSE historyAfterConfirmation(notificationService, notificationHistory,
                                            cur.event.data, email)
         /\ processedEvents' =
              IF outcome = "returned"
              THEN markProcessed(processedEvents, generateEventId(cur.event))
              ELSE processedEvents
         /\ IF retryLocally(outcome)
            THEN /\ cur' = [cur EXCEPT !.handles = @ + 1]
                 /\ UNCHANGED <<offset, pc, callbacks>>
            ELSE CallbackEnds(cur.at, cur.heartbeat, cur.handles,
                   HandleCall(cur.event, "send", outcome,
                              IF service = "rejects" THEN "none" ELSE email,
                              results),
                   outcome)
  /\ UNCHANGED <<topic, stamp, recent>>
  /\ UNCHANGED orderVars
  /\ UNCHANGED wiring
  /\ UNCHANGED lifeVars

----------------------------------------------------------------------------
(* From the producer to the consumer's partition *)

\* The request body of the orders that go through the whole pipeline.
PipelineInputs ==
  { OrderData("u1", <<Item("p1", "Widget", 1, 3)>>, "a@b.com", "A", 0) }

\* The events a caller of publishEvent publishes about a stored order.
FollowUpTypes == {"ORDER_STATUS_UPDATED", "ORDER_CANCELLED"}

\* publishEvent(event, key) called directly, up to producer.send: an event
\* about a stored order, keyed by the order's identifier as
\* publishOrderCreated keys it.
PublishEvent ==
  /\ orderPc = "idle"
  /\ lastCall = NoOrderCall
  /\ Len(sent) < MaxPublished
  /\ \E i \in 1..Len(orders), type \in FollowUpTypes :
       LET event == [type |-> type, timestamp |-> ToString(Len(sent) + 1),
                     version |-> "1.0", source |-> "order-service",
                     data |-> toEventData(orders[i])]
           message == [topic |-> "order-events", key |-> orders[i].orderId,
                       event |-> event]
       IN  req' = Call(NoOrderData, <<"publish">>, NoOrder, NoOrder, message,
                       1, "none", "")
  /\ orderPc' = "publishing"
  /\ UNCHANGED <<orders, sent, calls, lastCall>>
  /\ UNCHANGED notifyVars

\* A partitioner that spreads the records over the partitions in turn.
partitionInTurn(key, n) == n % numPartitions

\* The number the partitioner derives from a key.
hash(key) ==
  IF \E n \in 1..MaxCalls : key = "ORD-" \o ToString(n)
  THEN CHOOSE n \in 1..MaxCalls : key = "ORD-" \o ToString(n)
  ELSE 0

\* The partition of the n-th record sent to order-events: the producer's
\* default partitioner hashes the key.
partitionOf(key, n) == hash(key) % numPartitions

\* The partition whose log is topic.
ConsumerPartition == 1

\* The positions in sent of the records on partition p.
OnPartition(p) == { n \in 1..Len(sent) : partitionOf(sent[n].key, n) = p }

\* The k-th smallest element of a set of numbers.
Nth(S, k) == CHOOSE n \in S : Cardinality({ m \in S : m < n }) = k - 1

\* What the consumer reads of a message: JSON.stringify(event) parsed back.
WireOf(message) ==
  WireRecord("object", message.key,
             Event(message.event.type, message.event.data.orderId,
                   message.event.timestamp, TRUE))

\* The next record sent to the consumer's partition becomes readable.
BrokerDeliver ==
  /\ pc = "idle"
  /\ Len(topic) < Cardinality(OnPartition(ConsumerPartition))
  /\ topic' = Append(topic,
                     WireOf(sent[Nth(OnPartition(ConsumerPartition), Len(topic) + 1)]))
  /\ UNCHANGED <<offset, pc, cur, processedEvents,
                 notificationHistory, callbacks, stamp, recent>>
  /\ UNCHANGED orderVars
  /\ UNCHANGED wiring
  /\ UNCHANGED lifeVars

----------------------------------------------------------------------------
(* Event schemas, EventValidator and EventBuilder *)

\* A field that is not there.
undefined == "undefined"

\* A data payload, as far as the schemas look at it: whether it is an object
\* and which keys it has.  The values under the keys are taken to have the
\* types the schemas ask for.
Payload(object, keys) == [object |-> object, keys |-> keys]

NoPayload == Payload(FALSE, {})

\* What the consumer puts under metadata, lines 142-148.
BrokerInfo(headers, key, at, timestamp) ==
  [headers |-> headers, key |-> key, offset |-> at, timestamp |-> timestamp]

NoBrokerInfo == BrokerInfo({}, undefined, undefined, undefined)

\* The metadata of an envelope: the keys its producer put there, and the
\* broker information the consumer put there.
Metadata(producer, broker) == [producer |-> producer, broker |-> broker]

NoMetadata == Metadata({}, NoBrokerInfo)

\* What validate is called with.  kind tells an object from undefined and
\* null; unknown tells whether the object has a key baseEventSchema does
\* not list.
Envelope(kind, id, type, timestamp, version, source, data, metadata, unknown) ==
  [kind |-> kind, id |-> id, type |-> type, timestamp |-> timestamp,
   version |-> version, source |-> source, data |-> data,
   metadata |-> metadata, unknown |-> unknown]

NotAnObject(kind) ==
  Envelope(kind, undefined, undefined, undefined, undefined, undefined,
           NoPayload, NoMetadata, FALSE)

\* The values crypto.randomUUID() can return.
Uuids == {"0b0e0f6a-0001-4000-8000-000000000001",
          "0b0e0f6a-0002-4000-8000-000000000002"}

\* Every string that is not "yesterday" stands for an ISO date.
IsIsoDate(t) == t \notin {undefined, "yesterday"}

EVENT_TYPES == {"ORDER_CREATED", "ORDER_STATUS_UPDATED", "ORDER_CANCELLED", "HEALTH_CHECK"}

\* The keys the data schema of a type requires, lines 26-51, 59-73, 81-93
\* and 101-106.
requiredKeys(type) ==
  CASE type = "ORDER_CREATED" ->
         {"orderId", "userId", "items", "totalAmount", "shippingAddress",
          "paymentMethod", "customerInfo"}
    [] type = "ORDER_STATUS_UPDATED" ->
         {"orderId", "userId", "oldStatus", "newStatus", "customerInfo"}
    [] type = "ORDER_CANCELLED" ->
         {"orderId", "userId", "reason", "cancelledBy", "customerInfo"}
    [] type = "HEALTH_CHECK" -> {"service", "status", "timestamp"}

\* The keys the data schema of a type allows without requiring them.
optionalKeys(type) ==
  CASE type = "ORDER_CREATED" -> {}
    [] type = "ORDER_STATUS_UPDATED" ->
         {"reason", "updatedBy", "estimatedDelivery", "trackingNumber"}
    [] type = "ORDER_CANCELLED" -> {"refundAmount", "refundMethod"}
    [] type = "HEALTH_CHECK" -> {"checks"}

\* baseEventSchema.validate(event).error, lines 11-19: the message of the
\* first rule that fails, "" when none does.  Joi accepts undefined where
\* the schema is not required, and rejects keys the schema does not list.
baseEventSchema(event) ==
  IF event.kind = "undefined" THEN ""
  ELSE IF event.kind # "object" THEN "\"value\" must be of type object"
  ELSE IF event.id = undefined THEN "\"id\" is required"
  ELSE IF event.id \notin Uuids THEN "\"id\" must be a valid GUID"
  ELSE IF event.type = undefined THEN "\"type\" is required"
  ELSE IF ~IsIsoDate(event.timestamp) THEN "\"timestamp\" must be in iso format"
  ELSE IF event.source = undefined THEN "\"source\" is required"
  ELSE IF ~event.data.object THEN "\"data\" must be of type object"
  ELSE IF event.unknown THEN "\"extra\" is not allowed"
  ELSE ""

\* The error of baseEventSchema.keys({type: valid(type), data: {...}}).
eventSchema(type, event) ==
  IF baseEventSchema(event) # "" THEN baseEventSchema(event)
  ELSE IF event.type # type THEN "\"type\" must be [" \o type \o "]"
  ELSE IF ~(requiredKeys(type) \subseteq event.data.keys)
       THEN "\"data\" lacks a required key"
  ELSE IF ~(event.data.keys \subseteq requiredKeys(type) \cup optionalKeys(type))
       THEN "\"data\" has a key that is not allowed"
  ELSE ""

\* Names every object inherits: eventSchemas[name] is then a function of
\* Object.prototype, which is truthy and has no validate method.
InheritedNames == {"toString", "constructor"}

\* eventSchemas[type], lines 134-139 and 163.
lookup(type) ==
  IF type \in EVENT_TYPES THEN "schema"
  ELSE IF type \in InheritedNames THEN "inherited"
  ELSE "none"

\* What validate returns.
Validation(isValid, error, supportedTypes) ==
  [isValid |-> isValid, error |-> error, supportedTypes |-> supportedTypes]

NoValidation == Validation(FALSE, "none", {})

\* EventValidator.validate, lines 150-192.  Reading event.type of undefined
\* and calling validate on an inherited function raise inside the try.
validate(event) ==
  IF baseEventSchema(event) # ""
  THEN Validation(FALSE, "Base validation failed", {})
  ELSE IF event.kind = "undefined" THEN Validation(FALSE, "Validation error", {})
  ELSE IF lookup(event.type) = "none"
       THEN Validation(FALSE, "Unknown event type", EVENT_TYPES)
  ELSE IF lookup(event.type) = "inherited"
       THEN Validation(FALSE, "Validation error", {})
  ELSE IF eventSchema(event.type, event) # ""
       THEN Validation(FALSE, "Event validation failed", {})
  ELSE Validation(TRUE, "", {})

\* The default of the source parameter of a builder.
sourceOr(source, default) == IF source = undefined THEN default ELSE source

\* A builder that leaves the id out.
createEventWithoutId(type, data, source, id, now) ==
  Envelope("object", undefined, type, now, "1.0", source, data, NoMetadata, FALSE)

\* The object literal of the EventBuilder functions, lines 223-230.
createEvent(type, data, source, id, now) ==
  Envelope("object", id, type, now, "1.0", source, data, NoMetadata, FALSE)

createOrderCreatedEvent(orderData, source, id, now) ==
  createEvent("ORDER_CREATED", orderData, sourceOr(source, "order-service"), id, now)

createOrderStatusUpdatedEvent(updateData, source, id, now) ==
  createEvent("ORDER_STATUS_UPDATED", updateData, sourceOr(source, "order-service"),
              id, now)

createOrderCancelledEvent(cancelData, source, id, now) ==
  createEvent("ORDER_CANCELLED", cancelData, sourceOr(source, "order-service"), id, now)

\* createHealthCheckEvent, lines 273-282: source has no default.
createHealthCheckEvent(healthData, source, id, now) ==
  createEvent("HEALTH_CHECK", healthData, source, id, now)

\* The EventBuilder function for a type.
EventBuilder(type, data, source, id, now) ==
  CASE type = "ORDER_CREATED" -> createOrderCreatedEvent(data, source, id, now)
    [] type = "ORDER_STATUS_UPDATED" ->
         createOrderStatusUpdatedEvent(data, source, id, now)
    [] type = "ORDER_CANCELLED" -> createOrderCancelledEvent(data, source, id, now)
    [] type = "HEALTH_CHECK" -> createHealthCheckEvent(data, source, id, now)

\* A validation that writes the defaults into the object it was given.
validatedInputDefaulted(event) ==
  [event EXCEPT !.version = IF @ = undefined THEN "1.0" ELSE @]

\* The caller's object after schema.validate(event): Joi works on a shallow
\* clone and leaves the object it was given as it is.
validatedInput(event) == event

\* eventValidation.value, line 183: the clone, with version defaulted to
\* '1.0' (line 15) and the timestamp converted to a Date (line 14).
sanitized(event) ==
  [event EXCEPT !.version = IF @ = undefined THEN "1.0" ELSE @,
                !.timestamp = "Date(" \o @ \o ")"]

\* One validate call, for the log: what it was called with, whether that
\* came from an EventBuilder function, what it returned, the caller's object
\* after the call, and the event of the result.
Check(event, builder, result) ==
  [event |-> event, builder |-> builder, result |-> result,
   after |-> validatedInput(event),
   value |-> IF result.isValid THEN sanitized(event) ELSE NotAnObject("undefined")]

NoCheck == Check(NotAnObject("undefined"), "none", NoValidation)

\* A record as the broker client hands it to eachMessage: the envelope its
\* value is the JSON text of, and its headers, key, offset and timestamp.
Message(value, headers, key, at, timestamp) ==
  [value |-> value, headers |-> headers, key |-> key, offset |-> at,
   timestamp |-> timestamp]

\* parseMessage, lines 131-150, for a value that is the JSON text of an
\* object: the parsed object with its metadata property assigned anew.
parsedEvent(message) ==
  [message.value EXCEPT
     !.metadata = Metadata({},
                           BrokerInfo(message.headers, message.key, message.offset,
                                      message.timestamp))]

\* One parseMessage call, for the log.
Parse(message, event) == [message |-> message, event |-> event]

NoParse == Parse(Message(NotAnObject("undefined"), {}, undefined, undefined, undefined),
                 NotAnObject("undefined"))

Init ==
  /\ topic = << >>
  /\ offset = 1
  /\ pc = "idle"
  /\ cur = NoRecord
  /\ processedEvents = << >>
  /\ notificationHistory = << >>
  /\ callbacks = << >>
  /\ stamp = 0
  /\ recent = << >>
  /\ orderPc = "idle"
  /\ req = NoOrderCall
  /\ orders = << >>
  /\ sent = << >>
  /\ calls = 0
  /\ lastCall = NoOrderCall
  /\ isRunning = FALSE
  /\ consumer = null
  /\ life = "idle"
  /\ startCall = NoLifecycleCall
  /\ stopCall = NoLifecycleCall
  /\ notificationService \in NotificationServices
  /\ health = [report |-> NoReport, email |-> "healthy", sms |-> "healthy"]
  /\ checked = NoCheck
  /\ pauseCalls = << >>
  /\ parseCall = NoParse
  /\ handleCalls = << >>
  /\ failed = {}
  /\ batchRun = NoBatchRun
  /\ replaced = << >>
  /\ app = NewApp
  /\ appHealth = NoHealth

Next ==
  \/ Start
  \/ \E ok \in BOOLEAN : ConnectReturns(ok)
  \/ \E ok \in BOOLEAN : SubscribeReturns(ok)
  \/ \E ok \in BOOLEAN : RunReturns(ok)
  \/ \E w \in WireRecords : BrokerAppend(w)
  \/ BrokerRedeliver
  \/ ProcessMessage
  \/ \E ok \in BOOLEAN : HeartbeatReturns(ok)
  \/ \E service \in {"resolves", "rejects"}, email \in {"sent", "failed"} :
       SendReturns(service, email)

Spec == Init /\ [][Next]_vars

\* The consumer with the calls the application and its operators make on it
\* while records are delivered.
NextConsumer ==
  \/ Next
  \/ Stop
  \/ \E ok \in BOOLEAN : DisconnectReturns(ok)
  \/ Pause /\ UNCHANGED pauseCalls
  \/ Resume /\ UNCHANGED pauseCalls

SpecConsumer == Init /\ [][NextConsumer]_vars

NextOrder ==
  \/ CreateOrder
  \/ \E ok \in BOOLEAN : SaveReturns(ok)
  \/ \E ok \in BOOLEAN : ProducerSendReturns(ok)
  \/ Respond

SpecOrder == Init /\ [][NextOrder]_vars

\* The order service, the broker and the notification consumer together.
NextPipeline ==
  \/ CreateOrderFrom(PipelineInputs)
  \/ \E ok \in BOOLEAN : SaveReturns(ok)
  \/ \E ok \in BOOLEAN : ProducerSendReturns(ok)
  \/ Respond
  \/ PublishEvent
  \/ BrokerDeliver
  \/ BrokerRedeliver
  \/ Start
  \/ \E ok \in BOOLEAN : ConnectReturns(ok)
  \/ \E ok \in BOOLEAN : SubscribeReturns(ok)
  \/ \E ok \in BOOLEAN : RunReturns(ok)
  \/ ProcessMessage
  \/ \E ok \in BOOLEAN : HeartbeatReturns(ok)
  \/ \E service \in {"resolves", "rejects"}, email \in {"sent", "failed"} :
       SendReturns(service, email)

SpecPipeline == Init /\ [][NextPipeline]_vars

----------------------------------------------------------------------------
(* Properties of the order service *)

\* The createOrder calls a state shows: the one in progress and the one
\* that completed last.
ShownCalls == { c \in {req, lastCall} : c # NoOrderCall }

Took(c, step) == \E i \in 1..Len(c.steps) : c.steps[i] = step

\* The sum of quantity * price over a set of positions of an item list.
RECURSIVE SumOver(_, _)
SumOver(items, positions) ==
  IF positions = {} THEN 0
  ELSE LET i == CHOOSE i \in positions : TRUE
       IN  (items[i].quantity * items[i].price) + SumOver(items, positions \ {i})

ItemSum(items) == SumOver(items, 1..Len(items))

\* C7: for every input that passes validation, the order handed to the
\* repository (and the order it stores) has totalAmount equal to the sum of
\* quantity * price over the items, whatever total the client supplied.
C7_TotalIsItemSum ==
  \A c \in ShownCalls :
    Took(c, "save")
    => /\ c.toSave.totalAmount = ItemSum(c.input.items)
       /\ c.toSave.items = c.input.items
       /\ c.saved # NoOrder => c.saved.totalAmount = ItemSum(c.input.items)

C7_Witness ==
  /\ lastCall.outcome = "created"
  /\ Len(lastCall.input.items) = 2
  /\ lastCall.input.totalAmount = 999
  /\ lastCall.saved.totalAmount = 13

\* An input with no item, or with an item whose quantity or price is not
\* positive.
BadItemsInput(orderData) ==
  \/ Len(orderData.items) = 0
  \/ \E i \in 1..Len(orderData.items) :
       orderData.items[i].quantity <= 0 \/ orderData.items[i].price <= 0

ValidationErrors(orderData) ==
  { "User ID is required", "Order must contain at least one item",
    "Customer email is required", "Customer name is required" }
  \cup { "Item " \o ToString(i) \o ": " \o m :
           i \in 1..Len(orderData.items),
           m \in { "Product ID is required", "Product title is required",
                   "Valid quantity is required", "Valid price is required" } }

\* C8: a createOrder call whose input has no item, or an item with
\* non-positive quantity or price, fails with a validation error, and
\* neither orderRepository.save nor the publisher is called for it.
C8_BadItemsRejected ==
  /\ orderPc # "idle" => ~BadItemsInput(req.input)
  /\ (lastCall # NoOrderCall /\ BadItemsInput(lastCall.input))
     => /\ lastCall.outcome = "failed"
        /\ lastCall.error \in ValidationErrors(lastCall.input)
        /\ ~Took(lastCall, "save")
        /\ ~Took(lastCall, "publish")
        /\ lastCall.saved = NoOrder
        /\ lastCall.sends = 0
        /\ \A i \in 1..Len(orders) : orders[i].items # lastCall.input.items
        /\ \A i \in 1..Len(sent) : sent[i].event.data.items # lastCall.input.items

C8_Witness ==
  /\ lastCall.outcome = "failed"
  /\ lastCall.input.userId # ""
  /\ lastCall.input.customerEmail # ""
  /\ lastCall.input.customerName # ""
  /\ Len(lastCall.input.items) = 2
  /\ lastCall.input.items[1] \in GoodItems
  /\ lastCall.input.items[2].price < 0

\* C9: createOrder takes its steps in the order validate, compute total,
\* persist, publish; an ORDER_CREATED event is handed to the producer only
\* after the repository has stored the order, and both its key and its
\* data carry the orderId the repository assigned.
C9_PersistBeforePublish ==
  /\ \A c \in ShownCalls :
       /\ \E n \in 1..4 :
            c.steps = SubSeq(<<"validate", "calculateTotal", "save", "publish">>, 1, n)
       /\ Took(c, "publish")
          => /\ c.saved.orderId # ""
             /\ \E i \in 1..Len(orders) : orders[i] = c.saved
             /\ c.message.event.type = "ORDER_CREATED"
             /\ c.message.key = c.saved.orderId
             /\ c.message.event.data.orderId = c.saved.orderId
  /\ \A k \in 1..Len(sent) :
       \E i \in 1..Len(orders) :
         /\ sent[k].key = orders[i].orderId
         /\ sent[k].event.data = orders[i]

C9_Witness ==
  /\ lastCall.outcome = "created"
  /\ Len(sent) = 1
  /\ sent[1].key = "ORD-1"

\* C10: when the publish step fails, createOrder fails with the publish
\* error, the order the repository stored stays stored, and producer.send
\* was attempted exactly once for the call; no call attempts it twice.
C10_PublishFailureLeavesOrder ==
  /\ \A c \in ShownCalls : c.sends <= 1
  /\ (lastCall.outcome = "failed" /\ Took(lastCall, "publish"))
     => /\ lastCall.error = publishError("send failed")
        /\ lastCall.sends = 1
        /\ \E i \in 1..Len(orders) : orders[i] = lastCall.saved
        /\ lastCall.saved.status = "PENDING"
        /\ \A k \in 1..Len(sent) : sent[k] # lastCall.message

C10_Witness ==
  /\ lastCall.outcome = "failed"
  /\ Took(lastCall, "publish")
  /\ Len(orders) = 1
  /\ Len(sent) = 0

\* C11: when orderRepository.save fails, createOrder fails with the
\* repository's error, the call stores no order, and nothing is handed to
\* the producer for it.
C11_SaveFailureSurfaced ==
  /\ []( (lastCall.outcome = "failed" /\ Took(lastCall, "save")
            /\ lastCall.saved = NoOrder)
         => /\ lastCall.error = "save failed"
            /\ ~Took(lastCall, "publish")
            /\ lastCall.message = NoMessage
            /\ lastCall.sends = 0 )
  /\ [][ (orderPc = "saving" /\ orderPc' = "idle")
         => /\ lastCall'.outcome = "failed"
            /\ lastCall'.saved = NoOrder
            /\ orders' = orders
            /\ sent' = sent ]_vars

C11_Witness ==
  /\ lastCall.outcome = "failed"
  /\ Took(lastCall, "save")
  /\ lastCall.error = "save failed"
  /\ orders = << >>
  /\ sent = << >>

\* The positions in sent of the messages keyed by orderId.
SentFor(orderId) == { k \in 1..Len(sent) : sent[k].key = orderId }

\* C12: a createOrder call that returns has stored its order with status
\* PENDING, and exactly one message has been sent for it: an ORDER_CREATED
\* envelope on order-events whose key is the stored order's orderId.  No
\* order ever has more than one message.
C12_OneEnvelopePerCreatedOrder ==
  /\ lastCall.outcome = "created"
     => /\ lastCall.saved.status = "PENDING"
        /\ \E i \in 1..Len(orders) : orders[i] = lastCall.saved
        /\ Cardinality(SentFor(lastCall.saved.orderId)) = 1
        /\ \A k \in SentFor(lastCall.saved.orderId) :
             /\ sent[k].topic = "order-events"
             /\ sent[k].event.type = "ORDER_CREATED"
             /\ sent[k].event.data = lastCall.saved
  /\ \A i \in 1..Len(orders) :
       /\ orders[i].status = "PENDING"
       /\ Cardinality(SentFor(orders[i].orderId)) <= 1

C12_Witness ==
  /\ lastCall.outcome = "created"
  /\ lastCall.saved.status = "PENDING"
  /\ SentFor(lastCall.saved.orderId) = {1}
  /\ sent[1].topic = "order-events"

\* The message of every rule of validateOrderData that orderData violates.
FailingRules(orderData) ==
  { m \in { "User ID is required", "Order must contain at least one item",
            "Customer email is required", "Customer name is required" } :
      \/ m = "User ID is required" /\ orderData.userId = ""
      \/ m = "Order must contain at least one item" /\ Len(orderData.items) = 0
      \/ m = "Customer email is required" /\ orderData.customerEmail = ""
      \/ m = "Customer name is required" /\ orderData.customerName = "" }
  \cup { "Item " \o ToString(i) \o ": Product ID is required" :
           i \in { j \in 1..Len(orderData.items) : orderData.items[j].id = "" } }
  \cup { "Item " \o ToString(i) \o ": Product title is required" :
           i \in { j \in 1..Len(orderData.items) : orderData.items[j].title = "" } }
  \cup { "Item " \o ToString(i) \o ": Valid quantity is required" :
           i \in { j \in 1..Len(orderData.items) : orderData.items[j].quantity <= 0 } }
  \cup { "Item " \o ToString(i) \o ": Valid price is required" :
           i \in { j \in 1..Len(orderData.items) : orderData.items[j].price <= 0 } }

\* text occurs in message.
Mentions(message, text) ==
  \E i \in 1..(Len(message) - Len(text) + 1) :
    SubSeq(message, i, i + Len(text) - 1) = text

\* C14: the error of a createOrder call that fails validation mentions
\* every rule the input violates, not only the first one.
C14_ErrorListsEveryFailingRule ==
  (lastCall.outcome = "failed" /\ ~Took(lastCall, "save"))
  => \A m \in FailingRules(lastCall.input) : Mentions(lastCall.error, m)

----------------------------------------------------------------------------
(* Properties of the notification pipeline *)

\* The handle calls made so far, in order.
Handled ==
  LET called(c) == c.call.entry # "none"
      made == SelectSeq(callbacks, called)
  IN  [i \in 1..Len(made) |-> made[i].call]

\* How many of the handle calls strictly between i and j inserted a fingerprint.
InsertedBetween(i, j) ==
  Cardinality({ k \in (i+1)..(j-1) :
                  Handled[k].entry = "send" /\ Handled[k].outcome = "returned" })

\* How often sendOrderConfirmation was called for event e from call i on.
SendsFrom(i, e) ==
  Cardinality({ k \in i..Len(Handled) :
                  Handled[k].event = e /\ Handled[k].entry = "send" })

\* C1: when an ORDER_CREATED event was handled successfully and the same
\* event (same type, orderId, timestamp) is delivered again within the
\* dedup window, the later call returns as a duplicate without raising, so
\* sendOrderConfirmation is called exactly once for the event; an order all
\* of whose deliveries are that event has exactly one notification record
\* (one record returned, and one stored where the loaded class stores it).
C1_DuplicateDeliveryHandledOnce ==
  \A i \in 1..Len(Handled) :
    LET e == Handled[i].event
        again == { j \in (i+1)..Len(Handled) : Handled[j].event = e }
    IN  (/\ Handled[i].entry = "send"
         /\ Handled[i].outcome = "returned"
         /\ \A j \in again : InsertedBetween(i, j) < DedupKeep)
        => /\ \A j \in again :
                Handled[j].entry = "duplicate" /\ Handled[j].outcome = "returned"
           /\ SendsFrom(i, e) = 1
           /\ (\A k \in 1..Len(Handled) :
                 Handled[k].event.data.orderId = e.data.orderId
                 => Handled[k].event = e /\ Handled[k].outcome = "returned")
              => /\ Cardinality({ k \in 1..Len(Handled) :
                                    /\ Handled[k].results # NoResults
                                    /\ Handled[k].results.orderId = e.data.orderId }) = 1
                 /\ Len(getNotificationHistory(notificationHistory, e.data.orderId))
                      = IF notificationService = "NotificationService" THEN 1 ELSE 0

C1_Witness ==
  \E i, j \in 1..Len(Handled) :
    /\ i < j
    /\ Handled[i].event = Handled[j].event
    /\ Handled[i].entry = "send" /\ Handled[i].outcome = "returned"
    /\ Handled[j].entry = "duplicate"

\* C2: a record whose handle call raised is not acknowledged: the failure
\* leaves the per-record callback, and the runner does not move past the
\* record, so the broker delivers it again.
C2_HandlerFailureIsRedelivered ==
  \A k \in 1..Len(callbacks) :
    callbacks[k].call.outcome = "raised"
    => /\ callbacks[k].callback = "raised"
       /\ (k = Len(callbacks) => offset <= callbacks[k].at)

\* C3: a sendOrderConfirmation call in which exactly one of the two channels
\* (email, SMS) fails returns a record with exactly one "success" and
\* exactly one "failed" entry, one per channel, whichever way the SMS
\* sender behaves for the order.
C3_OneEntryPerChannel ==
  \A i \in 1..Len(Handled) : \A sms \in {"sent", "failed"} :
    LET h == Handled[i]
        n == h.results.notifications
    IN  (h.entry = "send" /\ h.outcome = "returned"
           /\ (h.email = "failed") # (sms = "failed"))
        => /\ Len(n) = 2
           /\ Cardinality({ x \in 1..Len(n) : n[x].status = "success" }) = 1
           /\ Cardinality({ x \in 1..Len(n) : n[x].status = "failed" }) = 1
           /\ { n[x].type : x \in 1..Len(n) } = {"email", "sms"}

\* C4: a failed email send is not escalated: sendOrderConfirmation returns
\* a record with a "failed" email entry, and handle, processMessage and the
\* per-record callback all return for that record.
C4_ChannelFailureContained ==
  \A k \in 1..Len(callbacks) :
    LET c == callbacks[k]
    IN  (c.call.entry = "send" /\ c.call.email = "failed")
        => /\ c.call.outcome = "returned"
           /\ \E x \in 1..Len(c.call.results.notifications) :
                c.call.results.notifications[x] = [type |-> "email", status |-> "failed"]
           /\ c.process = "returned"
           /\ c.callback = "returned"

C4_Witness ==
  \E k \in 1..Len(callbacks) :
    /\ callbacks[k].call.entry = "send"
    /\ callbacks[k].call.email = "failed"
    /\ callbacks[k].call.outcome = "returned"

\* Callback k worked on a record whose value is not JSON.
NotJson(k) == topic[callbacks[k].at].json = "invalid"

C18_HeartbeatBeforeHandle ==
  /\ pc = "heartbeat" => cur.handles = 0
  /\ pc = "sending" => cur.heartbeat = "ok" /\ cur.handles >= 1
  /\ \A k \in 1..Len(callbacks) :
       LET c == callbacks[k]
       IN  /\ parseMessage(topic[c.at]).ok => c.heartbeat \in {"ok", "failed"}
           /\ (c.call.entry # "none" \/ c.handles > 0) => c.heartbeat = "ok"
           /\ c.heartbeat = "failed"
              => c.call = NoCall /\ c.handles = 0 /\ c.process = "raised"

C18_Witness ==
  \E k \in 1..Len(callbacks) :
    /\ callbacks[k].heartbeat = "failed"
    /\ topic[callbacks[k].at].event = Event("ORDER_CREATED", "o1", "t1", TRUE)
    /\ processedEvents = << >>

\* C19: the records of the partition are worked on one at a time and in
\* offset order: the callback in progress is the one of the record at the
\* runner's offset, every record before that offset had its callback end,
\* no record is skipped, and one delivery invokes handle at most once.
C19_OneRecordAtATime ==
  /\ cur.handles <= 1
  /\ pc # "idle" => cur.at = offset
  /\ pc = "idle" => cur = NoRecord
  /\ \A a \in 1..(offset - 1) : \E k \in 1..Len(callbacks) : callbacks[k].at = a
  /\ \A k \in 1..Len(callbacks) :
       /\ callbacks[k].handles <= 1
       /\ callbacks[k].call.outcome \in {"none", "returned", "raised"}
       /\ k < Len(callbacks) => callbacks[k + 1].at <= callbacks[k].at + 1
       /\ k = Len(callbacks) => offset <= callbacks[k].at + 1

C19_Witness ==
  /\ Len(callbacks) = 2
  /\ callbacks[1].at = 1 /\ callbacks[2].at = 2
  /\ callbacks[1].call.outcome = "raised" /\ callbacks[1].handles = 1
  /\ callbacks[2].call.entry = "send" /\ callbacks[2].handles = 1

----------------------------------------------------------------------------
(* Properties of the pipeline *)

\* The first callback that worked on the record at offset a, 0 when none.
FirstCallback(a) ==
  IF \E k \in 1..Len(callbacks) : callbacks[k].at = a
  THEN CHOOSE k \in 1..Len(callbacks) :
         /\ callbacks[k].at = a
         /\ \A j \in 1..(k - 1) : callbacks[j].at # a
  ELSE 0

----------------------------------------------------------------------------
(* Properties of the consumer's life cycle *)

StartSteps == <<"connect", "subscribe", "isRunning", "run">>

\* C15: start() connects, then subscribes to order-events under the group
\* notification-service-group, then sets isRunning, then starts the
\* per-record loop; records are delivered only after run() succeeded; a
\* start() in which connect, subscribe or run failed raised the error and
\* left isRunning false.
C15_StartOrder ==
  /\ \E n \in {0, 1, 2, 4} : startCall.steps = SubSeq(StartSteps, 1, n)
  /\ life = "connecting"
     => /\ startCall.steps = SubSeq(StartSteps, 1, 1)
        /\ ~consumer.connected /\ consumer.topics = {} /\ ~isRunning
  /\ life = "subscribing"
     => /\ startCall.steps = SubSeq(StartSteps, 1, 2)
        /\ consumer.connected /\ consumer.topics = {} /\ ~isRunning
  /\ life = "starting"
     => /\ startCall.steps = StartSteps
        /\ consumer.connected /\ consumer.topics = {"order-events"}
        /\ consumer.groupId = "notification-service-group"
        /\ isRunning /\ ~consumer.running
  /\ (consumer.running \/ callbacks # << >> \/ pc # "idle")
     => /\ startCall.steps = StartSteps
        /\ startCall.outcome = "returned"
        /\ consumer.groupId = "notification-service-group"
  /\ startCall.outcome = "returned" => startCall.steps = StartSteps
  /\ startCall.outcome = "raised"
     => ~isRunning /\ ~consumer.running /\ callbacks = << >>

C15_Witness ==
  /\ startCall.outcome = "raised"
  /\ startCall.steps = StartSteps
  /\ consumer.connected
  /\ ~isRunning

\* C16: isHealthy() is true only while the consumer is running with an
\* active subscription: after connect and subscribe of a start() that did
\* not fail, before any stop(), and not while fetching is paused.
C16_HealthyOnlyWhenRunning ==
  isHealthy
  => /\ consumer.connected
     /\ consumer.topics = {"order-events"}
     /\ startCall.outcome # "raised"
     /\ stopCall = NoLifecycleCall
     /\ ~consumer.paused

----------------------------------------------------------------------------
(* The dedup set under more events than its cap: handle called directly,
   every call running to completion with the email sent. *)

MaxFresh == DedupCap + ExtraFresh

\* The n-th distinct event: ORDER_CREATED of order o1 stamped n.
FreshEvent(n) == Event("ORDER_CREATED", "o1", ToString(n), TRUE)

\* handle(event), from the call to its return or throw, when the email send
\* inside sendOrderConfirmation ends as email.
HandleEnds(event, email) ==
  /\ pc = "idle"
  /\ IF handleEntry(processedEvents, event) = "send"
     THEN /\ notificationHistory' =
               historyAfterConfirmation(notificationService, notificationHistory,
                                        event.data, email)
          /\ processedEvents' =
               IF handle(handleOrderCreated(confirmationOutcome(email))) = "returned"
               THEN markProcessed(processedEvents, generateEventId(event))
               ELSE processedEvents
          /\ failed' = IF email = "failed" THEN failed \cup {generateEventId(event)}
                       ELSE failed
     ELSE UNCHANGED <<processedEvents, notificationHistory, failed>>
  /\ recent' = sliceLast(Append(recent, generateEventId(event)), RecentWindow)
  /\ UNCHANGED <<topic, offset, pc, cur, callbacks>>
  /\ UNCHANGED orderVars
  /\ UNCHANGED <<notificationService, health, checked, pauseCalls, parseCall,
                 handleCalls, batchRun, replaced, appVars>>
  /\ UNCHANGED lifeVars

\* handle(event), from the call to its return, with the email sent.
HandleCompletes(event) == HandleEnds(event, "sent")

\* An event not delivered before.
HandleFresh ==
  /\ stamp < MaxFresh
  /\ stamp' = stamp + 1
  /\ HandleCompletes(FreshEvent(stamp + 1))

\* A redelivery of the first or of the latest event.
HandleAgain(n) ==
  /\ stamp >= 1
  /\ n \in {1, stamp}
  /\ UNCHANGED stamp
  /\ HandleCompletes(FreshEvent(n))

NextDedup ==
  \/ HandleFresh
  \/ \E n \in {1, stamp} : HandleAgain(n)

SpecDedup == Init /\ [][NextDedup]_vars

C6_RecentlySeenRetained ==
  \A i \in 1..Len(recent) : has(processedEvents, recent[i])

\* C6 as amended: the fingerprints of the (up to) 500 most recently
\* inserted events are in the dedup set.
C6_RecentlyInsertedRetained ==
  LET members == { processedEvents[i] : i \in 1..Len(processedEvents) }
      first   == IF stamp > DedupKeep THEN stamp - DedupKeep + 1 ELSE 1
  IN  \A n \in first..stamp : generateEventId(FreshEvent(n)) \in members

C6_Witness ==
  /\ stamp > DedupCap
  /\ \E i \in 1..Len(recent) :
       /\ recent[i] = generateEventId(FreshEvent(1))
       /\ ~has(processedEvents, recent[i])

----------------------------------------------------------------------------
(* The notification history *)

\* The records sendOrderConfirmation returned for an order, in call order.
RecordsFor(orderId) ==
  LET of(c) == c.results # NoResults /\ c.results.orderId = orderId
      made == SelectSeq(Handled, of)
  IN  [k \in 1..Len(made) |-> made[k].results]

\* history s is the beginning of history t.
IsPrefix(s, t) == Len(s) =< Len(t) /\ \A k \in 1..Len(s) : s[k] = t[k]

\* C21: every record sendOrderConfirmation returns is appended to the
\* history of its orderId: the history of an order holds one record per
\* call for that order, in call order, a failed channel outcome included,
\* and a step only ever appends to a history.
C21_HistoryHoldsEveryRecord ==
  /\ [](\A k \in 1..Len(Handled) :
          LET orderId == Handled[k].event.data.orderId
              h == getNotificationHistory(notificationHistory, orderId)
              made == RecordsFor(orderId)
          IN  /\ Len(h) = Len(made)
              /\ \A x \in 1..Len(h) :
                   h[x] = [type |-> "ORDER_CONFIRMATION", result |-> made[x]])
  /\ [][\A orderId \in DOMAIN notificationHistory :
          /\ orderId \in DOMAIN notificationHistory'
          /\ IsPrefix(notificationHistory[orderId], notificationHistory'[orderId])]_vars

\* The history-keeping declaration is the one loaded.
KeepsHistory == notificationService = "NotificationService"

\* C21 where the loaded class is the one of lines 5-272.
C21_HistoryKeptByFirstDeclaration ==
  /\ [](KeepsHistory =>
          \A k \in 1..Len(Handled) :
            LET orderId == Handled[k].event.data.orderId
                h == getNotificationHistory(notificationHistory, orderId)
                made == RecordsFor(orderId)
            IN  /\ Len(h) = Len(made)
                /\ \A x \in 1..Len(h) :
                     h[x] = [type |-> "ORDER_CONFIRMATION", result |-> made[x]])
  /\ [][\A orderId \in DOMAIN notificationHistory :
          /\ orderId \in DOMAIN notificationHistory'
          /\ IsPrefix(notificationHistory[orderId], notificationHistory'[orderId])]_vars

----------------------------------------------------------------------------
(* The health check of the notification channels *)

\* checkHealth() is called while the email sender's isHealthy() would end as
\* emailHealth and the SMS sender's as smsHealth.
CheckHealth(emailHealth, smsHealth) ==
  /\ health' = [report |-> checkHealthOf(notificationService, emailHealth, smsHealth),
                email |-> emailHealth, sms |-> smsHealth]
  /\ UNCHANGED <<notificationService, checked, pauseCalls, parseCall, callVars, recordVars,
                 orderVars, lifeVars>>

NextHealth == Next \/ \E emailHealth, smsHealth \in Probes : CheckHealth(emailHealth, smsHealth)

SpecHealth == Init /\ [][NextHealth]_vars

\* C22: whenever checkHealth() was called, it returned (also when a probe
\* raised), it probed the email and the SMS sender, its status is 'healthy'
\* exactly when both reported healthy and 'degraded' or 'unhealthy'
\* otherwise, and a report that is not 'healthy' has the breakdown of both.
C22_HealthOfEveryChannel ==
  health.report # NoReport
  => /\ health.report.outcome = "returned"
     /\ { health.report.probed[k] : k \in 1..Len(health.report.probed) }
          = {"email", "sms"}
     /\ health.report.status = "healthy"
          <=> (health.email = "healthy" /\ health.sms = "healthy")
     /\ health.report.status \in {"healthy", "degraded", "unhealthy"}
     /\ health.report.status # "healthy"
          => DOMAIN health.report.services = {"email", "sms"}

\* What checkHealth() does in both declarations: it returns, 'healthy' means
\* that every sender it probed returned true, and a report made without a
\* raising probe has the breakdown of the probed senders.
C22_HealthOfProbedChannels ==
  health.report # NoReport
  => LET probed == { health.report.probed[k] : k \in 1..Len(health.report.probed) }
         ends == [email |-> health.email, sms |-> health.sms]
     IN  /\ health.report.outcome = "returned"
         /\ health.report.status = "healthy"
              <=> \A c \in probed : ends[c] = "healthy"
         /\ (\A c \in probed : ends[c] # "raises")
              => /\ DOMAIN health.report.services = probed
                 /\ \A c \in probed : health.report.services[c] = ends[c]

----------------------------------------------------------------------------
(* The envelopes of the publisher and of the builder *)

\* The object JSON.stringify(event) of publishEvent puts on the wire, as
\* validate sees it.
EnvelopeOf(event) ==
  LET field(name) == IF name \in DOMAIN event THEN event[name] ELSE undefined
  IN  Envelope("object", field("id"), field("type"), field("timestamp"),
               field("version"), field("source"),
               IF "data" \in DOMAIN event
               THEN Payload(TRUE, DOMAIN event.data) ELSE NoPayload,
               NoMetadata, FALSE)

\* C23: every envelope the publisher sent has id, type, timestamp, version,
\* source and data, its id is a UUID no other sent envelope has, and every
\* sent ORDER_CREATED envelope passes EventValidator.validate.
C23_SentEnvelopesAreValid ==
  \A i \in 1..Len(sent) :
    LET e == EnvelopeOf(sent[i].event)
    IN  /\ undefined \notin {e.id, e.type, e.timestamp, e.version, e.source}
        /\ e.data.object
        /\ e.id \in Uuids
        /\ \A j \in 1..Len(sent) :
             j # i => EnvelopeOf(sent[j].event).id # e.id
        /\ e.type = "ORDER_CREATED" => validate(e).isValid

\* What the sent envelopes do carry: type, timestamp, version, source and
\* an object-valued data, and no id.
C23_SentEnvelopesLackId ==
  \A i \in 1..Len(sent) :
    LET e == EnvelopeOf(sent[i].event)
    IN  /\ undefined \notin {e.type, e.timestamp, e.version, e.source}
        /\ e.data.object
        /\ e.id = undefined
        /\ validate(e) = Validation(FALSE, "Base validation failed", {})

\* The payloads handed to a builder or found in a received envelope: for
\* every type the required keys, all keys, one required key missing, and
\* one key too many; an empty object; and something that is no object.
Payloads ==
  UNION { { Payload(TRUE, requiredKeys(t)),
            Payload(TRUE, requiredKeys(t) \cup optionalKeys(t)),
            Payload(TRUE, requiredKeys(t) \cup {"extra"}) }
          \cup { Payload(TRUE, requiredKeys(t) \ {k}) : k \in {"orderId", "status"} }
          : t \in EVENT_TYPES }
  \cup {Payload(TRUE, {}), NoPayload}

Sources == {undefined, "order-service"}

\* new Date().toISOString()
NowIso == "2026-01-01T00:00:00.000Z"

\* An envelope with one thing wrong with it, or with nothing.
Defects ==
  {"none", "no id", "bad id", "bad timestamp", "no source", "unknown key", "no version"}

Defective(defect, type, data) ==
  Envelope("object",
           CASE defect = "no id" -> undefined
             [] defect = "bad id" -> "42"
             [] OTHER -> CHOOSE id \in Uuids : TRUE,
           type,
           IF defect = "bad timestamp" THEN "yesterday" ELSE NowIso,
           IF defect = "no version" THEN undefined ELSE "1.0",
           IF defect = "no source" THEN undefined ELSE "order-service",
           data, NoMetadata, defect = "unknown key")

\* What validate can be called with.
Envelopes ==
  { Defective(defect, type, data) :
      defect \in Defects,
      type \in EVENT_TYPES \cup InheritedNames \cup {undefined, "ORDER_SHIPPED"},
      data \in { Payload(TRUE, requiredKeys(t)) : t \in EVENT_TYPES }
               \cup {Payload(TRUE, {}), NoPayload} }
  \cup {NotAnObject("undefined"), NotAnObject("null")}

\* An EventBuilder function is called and its envelope is validated.
BuildEvent(type, data, source) ==
  /\ \E id \in Uuids :
       LET event == EventBuilder(type, data, source, id, NowIso)
       IN  checked' = Check(event, type, validate(event))
  /\ UNCHANGED <<notificationService, health, pauseCalls, parseCall, callVars, recordVars,
                 orderVars, lifeVars>>

\* EventValidator.validate is called with an envelope from elsewhere.
ValidateEvent(event) ==
  /\ checked' = Check(event, "none", validate(event))
  /\ UNCHANGED <<notificationService, health, pauseCalls, parseCall, callVars, recordVars,
                 orderVars, lifeVars>>

NextEvents ==
  \/ \E type \in EVENT_TYPES, data \in Payloads, source \in Sources :
       BuildEvent(type, data, source)
  \/ \E event \in Envelopes : ValidateEvent(event)

SpecEvents == Init /\ [][NextEvents]_vars

\* The data schema of the type accepts the payload.
Fits(type, data) ==
  /\ data.object
  /\ requiredKeys(type) \subseteq data.keys
  /\ data.keys \subseteq requiredKeys(type) \cup optionalKeys(type)

C30_TwoStagedValidation ==
  checked.result # NoValidation
  => LET event == checked.event
         result == checked.result
     IN  /\ baseEventSchema(event) # ""
              => result = Validation(FALSE, "Base validation failed", {})
         /\ (baseEventSchema(event) = "" /\ event.type \notin EVENT_TYPES)
              => result = Validation(FALSE, "Unknown event type", EVENT_TYPES)
         /\ result.isValid
              => /\ baseEventSchema(event) = ""
                 /\ event.type \in EVENT_TYPES
                 /\ eventSchema(event.type, event) = ""

\* The same for events that are objects and whose type is not the name of
\* a property every object inherits; the others are rejected as well, with
\* the message of the catch branch and without the list.
C30_TwoStagedForOwnTypes ==
  checked.result # NoValidation
  => LET event == checked.event
         result == checked.result
         caught == event.kind = "undefined" \/ event.type \in InheritedNames
     IN  /\ baseEventSchema(event) # ""
              => result = Validation(FALSE, "Base validation failed", {})
         /\ (baseEventSchema(event) = "" /\ event.type \notin EVENT_TYPES /\ ~caught)
              => result = Validation(FALSE, "Unknown event type", EVENT_TYPES)
         /\ (baseEventSchema(event) = "" /\ caught)
              => result = Validation(FALSE, "Validation error", {})
         /\ result.isValid
              => /\ baseEventSchema(event) = ""
                 /\ event.type \in EVENT_TYPES
                 /\ eventSchema(event.type, event) = ""

----------------------------------------------------------------------------
(* OrderEventHandler.handle called directly *)

MaxHandled == 2

\* What handle can be called with: the events of the record loop, events of
\* the other types and of no known type, envelopes without type and without
\* an object-valued data, and values that are no objects.
HandlerEvents ==
  Events
  \cup { Event(type, "o1", "t1", TRUE) :
           type \in {"ORDER_STATUS_UPDATED", "HEALTH_CHECK", "ORDER_SHIPPED"} }
  \cup { Event("", "o1", "t1", TRUE), Event("ORDER_CREATED", "o1", "t1", FALSE),
         Primitive }
  \cup { Event("ORDER_CREATED", "o-1", "t1", TRUE),     \* '-' in the orderId
         Event("ORDER_CREATED", "o", "1-t1", TRUE),     \* '-' in the timestamp
         Event("ORDER_CREATED", "unknown", "t1", TRUE) }

\* handle(event), from the call to its return or throw.  service tells how
\* notificationService.sendOrderConfirmation ends when it is reached, email
\* how the email send inside it ends.
Handle(event, service, email) ==
  /\ pc = "idle"
  /\ Len(callbacks) < MaxHandled
  /\ LET entry == handleEntry(processedEvents, event)
         serviceOutcome ==
           IF service = "rejects" THEN "raised" ELSE confirmationOutcome(email)
         outcome == IF entry = "send" THEN handle(handleOrderCreated(serviceOutcome))
                    ELSE "returned"
         sends == entry = "send" /\ service = "resolves"
     IN  /\ notificationHistory' =
              IF sends
              THEN historyAfterConfirmation(notificationService, notificationHistory,
                                            event.data, email)
              ELSE notificationHistory
         /\ processedEvents' =
              IF entry = "send" /\ outcome = "returned"
              THEN markProcessed(processedEvents, generateEventId(event))
              ELSE processedEvents
         /\ callbacks' = Append(callbacks,
              [at |-> 0, heartbeat |-> "none", handles |-> 1,
               call |-> HandleCall(event, entry, outcome,
                                   IF sends THEN email ELSE "none",
                                   IF sends /\ serviceOutcome = "returned"
                                   THEN OrderConfirmationResults(event.data, email)
                                   ELSE NoResults),
               process |-> "none", callback |-> "none"])
  /\ UNCHANGED <<topic, offset, pc, cur, stamp, recent>>
  /\ UNCHANGED orderVars
  /\ UNCHANGED wiring
  /\ UNCHANGED lifeVars

NextHandler ==
  \E event \in HandlerEvents, service \in {"resolves", "rejects"},
     email \in {"sent", "failed"} : Handle(event, service, email)

SpecHandler == Init /\ [][NextHandler]_vars

\* The handle call a step makes, NoCall when the step makes none.
CallOfStep ==
  IF Len(callbacks') = Len(callbacks) + 1 THEN callbacks'[Len(callbacks')].call
  ELSE NoCall

\* The envelope lacks what isValidEvent asks for, lines 163-172.
StructurallyInvalid(event) ==
  \/ ~event.object
  \/ event.type = ""
  \/ event.timestamp = ""
  \/ ~event.data.object

\* C25: a handle call with a value that is no object, or with an envelope
\* without type, timestamp or object-valued data, returns, calls no
\* notification operation, and leaves the dedup set and the history as
\* they were.
C25_InvalidEnvelopeIgnored ==
  [][StructurallyInvalid(CallOfStep.event) /\ CallOfStep # NoCall
     => /\ CallOfStep.entry = "invalid"
        /\ CallOfStep.outcome = "returned"
        /\ CallOfStep.email = "none" /\ CallOfStep.results = NoResults
        /\ processedEvents' = processedEvents
        /\ notificationHistory' = notificationHistory]_vars

C25_Witness ==
  /\ \E k \in 1..Len(Handled) :
       /\ ~Handled[k].event.object
       /\ Handled[k].entry = "invalid" /\ Handled[k].outcome = "returned"
  /\ \E k \in 1..Len(Handled) :
       /\ Handled[k].event.object /\ ~Handled[k].event.data.object
       /\ Handled[k].entry = "invalid" /\ Handled[k].outcome = "returned"

\* C26: a handle call with a valid envelope whose type is not ORDER_CREATED
\* returns, calls no NotificationService operation, and leaves the dedup
\* set (and the history) as it was.
C26_OtherTypesIgnored ==
  [][(/\ CallOfStep # NoCall
      /\ ~StructurallyInvalid(CallOfStep.event)
      /\ CallOfStep.event.type # "ORDER_CREATED")
     => /\ CallOfStep.entry = "ignored"
        /\ CallOfStep.outcome = "returned"
        /\ CallOfStep.email = "none" /\ CallOfStep.results = NoResults
        /\ processedEvents' = processedEvents
        /\ notificationHistory' = notificationHistory]_vars

C26_Witness ==
  \A type \in {"ORDER_STATUS_UPDATED", "HEALTH_CHECK"} :
    \E k \in 1..Len(Handled) :
      /\ Handled[k].event.type = type
      /\ Handled[k].entry = "ignored" /\ Handled[k].outcome = "returned"

\* C27: the fingerprint of an event is added to the dedup set only by a
\* handle call that returned after sendOrderConfirmation: a call in which
\* sendOrderConfirmation raises raises too and leaves the set as it was,
\* and a later call for the same event reaches sendOrderConfirmation again
\* when no call in between recorded that fingerprint.
C27_FingerprintOnlyAfterSuccess ==
  /\ [][/\ (CallOfStep.entry = "send" /\ CallOfStep.results = NoResults)
             => /\ CallOfStep.outcome = "raised"
                /\ processedEvents' = processedEvents
        /\ processedEvents' # processedEvents
             => /\ CallOfStep.entry = "send" /\ CallOfStep.outcome = "returned"
                /\ has(processedEvents', generateEventId(CallOfStep.event))]_vars
  /\ [](\A i, j \in 1..Len(Handled) :
          (/\ i < j
           /\ Handled[i].entry = "send" /\ Handled[i].outcome = "raised"
           /\ Handled[j].event = Handled[i].event
           /\ \A k \in (i+1)..(j-1) :
                ~(/\ Handled[k].entry = "send" /\ Handled[k].outcome = "returned"
                  /\ generateEventId(Handled[k].event)
                       = generateEventId(Handled[i].event)))
          => Handled[j].entry = "send")

C27_Witness ==
  \E i, j \in 1..Len(Handled) :
    /\ i < j
    /\ Handled[i].entry = "send" /\ Handled[i].outcome = "raised"
    /\ Handled[j].event = Handled[i].event
    /\ Handled[j].entry = "send" /\ Handled[j].outcome = "returned"

----------------------------------------------------------------------------
(* pause() and resume() while records are delivered *)

MaxPauseCalls == 2

\* One pause() or resume() call, for the log: whether the check of lines
\* 235 and 246 let it through, and how many callbacks had ended by then.
PauseCall(op, applied, done) == [op |-> op, applied |-> applied, done |-> done]

\* A pause() or resume() call, logged.
Logged(op) ==
  /\ Len(pauseCalls) < MaxPauseCalls
  /\ pauseCalls' = Append(pauseCalls,
                          PauseCall(op, applies(consumer, isRunning), Len(callbacks)))

\* The consumer is started, stopped, paused and resumed while records of
\* one order are delivered to it.
NextPause ==
  \/ Start
  \/ \E ok \in BOOLEAN : ConnectReturns(ok)
  \/ \E ok \in BOOLEAN : SubscribeReturns(ok)
  \/ \E ok \in BOOLEAN : RunReturns(ok)
  \/ BrokerAppend(WireRecord("object", "o1", Event("ORDER_CREATED", "o1", "t1", TRUE)))
  \/ ProcessMessage
  \/ HeartbeatReturns(TRUE)
  \/ SendReturns("resolves", "sent")
  \/ Stop
  \/ \E ok \in BOOLEAN : DisconnectReturns(ok)
  \/ Pause /\ Logged("pause")
  \/ Resume /\ Logged("resume")

SpecPause == Init /\ [][NextPause]_vars

\* The pause() or resume() call a step makes.
PauseCallOfStep == pauseCalls'[Len(pauseCalls')]

\* C28: a pause() or resume() call changes nothing but whether fetching is
\* paused: isRunning, the consumer handle with its connection and its
\* subscribed topics, and the steps start() took stay as they were; on a
\* consumer that was never started or is stopped it changes nothing at
\* all; and a callback begins only while fetching is not paused, on the
\* subscription start() made.
C28_PauseKeepsSubscription ==
  /\ [][Len(pauseCalls') > Len(pauseCalls)
        => /\ isRunning' = isRunning
           /\ (consumer' = null) <=> (consumer = null)
           /\ consumer' = [consumer EXCEPT !.paused = consumer'.paused]
           /\ consumer'.topics = consumer.topics
           /\ startCall' = startCall /\ stopCall' = stopCall
           /\ PauseCallOfStep.applied <=> (isRunning /\ consumer # null)
           /\ PauseCallOfStep.applied
                => consumer'.paused = (PauseCallOfStep.op = "pause")
           /\ ~PauseCallOfStep.applied => consumer' = consumer]_vars
  /\ [][(pc = "idle" /\ pc' # "idle")
        => /\ ~consumer.paused
           /\ consumer.topics = topics
           /\ startCall' = startCall]_vars

\* A record was handled after a pause() and a resume() that both applied,
\* and start() connected and subscribed once.
C28_Witness ==
  /\ Len(pauseCalls) = 2
  /\ pauseCalls[1] = PauseCall("pause", TRUE, 0)
  /\ pauseCalls[2] = PauseCall("resume", TRUE, 0)
  /\ Len(callbacks) >= 1
  /\ callbacks[1].call.entry = "send"
  /\ startCall.steps = StartSteps
  /\ consumer.topics = topics

----------------------------------------------------------------------------
(* parseMessage on envelopes with all their fields *)

\* The records parseMessage is called with: envelopes of every type, sound
\* and defective, with and without metadata of the producer.
Messages ==
  { Message([Defective(defect, type, Payload(TRUE, requiredKeys(type)))
               EXCEPT !.metadata = Metadata(producer, NoBrokerInfo)],
            headers, key, at, "1767225600000") :
      defect \in Defects, type \in EVENT_TYPES,
      producer \in {{}, {"traceId"}},
      headers \in {{}, {"event-type", "event-version", "source-service"}},
      key \in {"ORD-1", undefined},
      at \in {"0", "41"} }

\* parseMessage(message) is called.
ParseMessage(message) ==
  /\ parseCall' = Parse(message, parsedEvent(message))
  /\ UNCHANGED <<notificationService, health, checked, pauseCalls, callVars,
                 recordVars, orderVars, lifeVars>>

NextParse == \E message \in Messages : ParseMessage(message)

SpecParse == Init /\ [][NextParse]_vars

\* The event parseMessage returned has the logical fields of the record.
SameContent ==
  \A field \in {"id", "type", "timestamp", "version", "source", "data"} :
    parseCall.event[field] = parseCall.message.value[field]

\* C29: the event parseMessage returns has the id, type, timestamp,
\* version, source and data of the wire record, the key, offset and headers
\* of the record are under its metadata, and the metadata the producer
\* supplied is still there.
C29_ParseKeepsEnvelope ==
  parseCall # NoParse
  => /\ SameContent
     /\ parseCall.event.metadata.broker
          = BrokerInfo(parseCall.message.headers, parseCall.message.key,
                       parseCall.message.offset, parseCall.message.timestamp)
     /\ parseCall.event.metadata.producer = parseCall.message.value.metadata.producer

\* What parseMessage does: the logical fields are kept, the broker
\* information is under metadata, and nothing else is.
C29_ParseReplacesMetadata ==
  parseCall # NoParse
  => /\ SameContent
     /\ parseCall.event.metadata
          = Metadata({}, BrokerInfo(parseCall.message.headers, parseCall.message.key,
                                    parseCall.message.offset, parseCall.message.timestamp))

----------------------------------------------------------------------------
(* What validate returns on success *)

----------------------------------------------------------------------------
(* The dedup fingerprint *)

\* The type, orderId and timestamp of an event.
Identity(event) == <<event.type, event.data.orderId, event.timestamp>>

\* Call i handed the event to sendOrderConfirmation and returned.
Succeeded(i) == Handled[i].entry = "send" /\ Handled[i].outcome = "returned"

\* C32: an ORDER_CREATED event is not a duplicate of an event for the same
\* orderId with another timestamp: when every earlier call was for the same
\* order with a different timestamp, the call reaches sendOrderConfirmation;
\* when an earlier call for the very same event (same timestamp) succeeded,
\* the call is skipped as a duplicate.
C32_TimestampTellsEventsApart ==
  \A j \in 1..Len(Handled) :
    LET e == Handled[j].event
    IN  (isValidEvent(e) /\ e.type = "ORDER_CREATED")
        => /\ (\A i \in 1..(j-1) :
                 /\ Handled[i].event.type = e.type
                 /\ Handled[i].event.data = e.data
                 /\ Handled[i].event.timestamp # e.timestamp)
              => Handled[j].entry = "send"
           /\ (\E i \in 1..(j-1) : Handled[i].event = e /\ Succeeded(i))
              => Handled[j].entry = "duplicate"

C32_Witness ==
  /\ Len(Handled) = 2
  /\ Handled[1].event = Event("ORDER_CREATED", "o1", "t1", TRUE)
  /\ Handled[2].event = Event("ORDER_CREATED", "o1", "t2", TRUE)
  /\ Succeeded(1) /\ Succeeded(2)
  /\ Handled[1].email = "sent" /\ Handled[2].email = "sent"

\* C33: two valid events have the same fingerprint only if they have the
\* same type, orderId and timestamp, so a call is skipped as a duplicate
\* only when an earlier call for an event of the same type, orderId and
\* timestamp succeeded.
C33_FingerprintInjective ==
  /\ \A i, j \in 1..Len(Handled) :
       (/\ isValidEvent(Handled[i].event) /\ isValidEvent(Handled[j].event)
        /\ generateEventId(Handled[i].event) = generateEventId(Handled[j].event))
       => Identity(Handled[i].event) = Identity(Handled[j].event)
  /\ \A j \in 1..Len(Handled) :
       Handled[j].entry = "duplicate"
       => \E i \in 1..(j-1) :
            Succeeded(i) /\ Identity(Handled[i].event) = Identity(Handled[j].event)

\* A call was skipped as a duplicate of a call for another order.
C33_SkippedForAnotherOrder ==
  \E j \in 1..Len(Handled) :
    /\ Handled[j].entry = "duplicate"
    /\ \A i \in 1..(j-1) :
         Handled[i].event.data.orderId # Handled[j].event.data.orderId

\* ---------------------------------------------------------------------
\* The dedup window: redelivery of an event that is still among the 500
\* most recently inserted ones.
\* ---------------------------------------------------------------------

\* The oldest event with fewer than 500 other events inserted after it.
OldestRetained == stamp - DedupKeep + 1

\* A redelivery of the latest event or of the oldest event of the window.
HandleRetained(n) ==
  /\ stamp >= 1
  /\ n \in {stamp, OldestRetained}
  /\ n >= 1
  /\ UNCHANGED stamp
  /\ HandleCompletes(FreshEvent(n))

NextWindow ==
  \/ HandleFresh
  \/ \E n \in {stamp, OldestRetained} : HandleRetained(n)

SpecWindow == Init /\ [][NextWindow]_vars

\* C34: an event handled successfully with fewer than 500 other distinct
\* events handled successfully since has its fingerprint in the dedup set,
\* whatever trims happened in between, and a redelivery of it is skipped:
\* the call sends nothing and leaves the dedup set as it was.
C34_RedeliveryInWindowSkipped ==
  /\ [](LET members == { processedEvents[i] : i \in 1..Len(processedEvents) }
        IN  \A n \in 1..stamp :
              stamp - n < DedupKeep
                => generateEventId(FreshEvent(n)) \in members)
  /\ [][ stamp' = stamp
           => /\ processedEvents' = processedEvents
              /\ notificationHistory' = notificationHistory ]_vars

\* The event inserted 499 events before the trim was redelivered after it.
C34_Witness ==
  /\ stamp = DedupCap + 1
  /\ Len(processedEvents) = DedupKeep
  /\ processedEvents[1] = generateEventId(FreshEvent(OldestRetained))
  /\ Len(recent) >= 1
  /\ recent[Len(recent)] = generateEventId(FreshEvent(OldestRetained))

----------------------------------------------------------------------------
(* handle calls that overlap *)

\* handle is an async function: a call runs to its await of
\* handleOrderCreated and yields, and another call may start before the
\* first one resumes.
MaxOverlap == 3

OverlapEvents ==
  { Event("ORDER_CREATED", "o1", "t1", TRUE),
    Event("ORDER_CREATED", "o2", "t1", TRUE),
    Event("ORDER_STATUS_UPDATED", "o1", "t1", TRUE) }

\* One handle call: what its entry decided, where it stands, the calls that
\* were awaiting when it started, and how its email send ended.
Overlapping(event, entry, at, during, email) ==
  [event |-> event, entry |-> entry, at |-> at, during |-> during, email |-> email]

Awaiting == { i \in 1..Len(handleCalls) : handleCalls[i].at = "awaiting" }

\* handle(event) up to its await: lines 17-35.  The has() check is made
\* here; a call that passes it has called sendOrderConfirmation.
HandleBegins(event) ==
  /\ Len(handleCalls) < MaxOverlap
  /\ LET entry == handleEntry(processedEvents, event)
     IN  handleCalls' = Append(handleCalls,
           Overlapping(event, entry,
                       IF entry = "send" THEN "awaiting" ELSE "returned",
                       Awaiting, "none"))
  /\ UNCHANGED <<notificationService, health, checked, pauseCalls, parseCall,
                 failed, batchRun, replaced, appVars>>
  /\ UNCHANGED <<recordVars, orderVars, lifeVars>>

\* The call resumes after sendOrderConfirmation: the email was sent or
\* failed, the history is stored, and lines 41-49 mark the event.
HandleResumes(i, email) ==
  /\ i \in Awaiting
  /\ notificationHistory' =
       historyAfterConfirmation(notificationService, notificationHistory,
                                handleCalls[i].event.data, email)
  /\ processedEvents' =
       markProcessed(processedEvents, generateEventId(handleCalls[i].event))
  /\ handleCalls' = [handleCalls EXCEPT ![i].at = "returned", ![i].email = email]
  /\ UNCHANGED <<topic, offset, pc, cur, callbacks, stamp, recent>>
  /\ UNCHANGED <<notificationService, health, checked, pauseCalls, parseCall,
                 failed, batchRun, replaced, appVars>>
  /\ UNCHANGED <<orderVars, lifeVars>>

NextOverlap ==
  \/ \E event \in OverlapEvents : HandleBegins(event)
  \/ \E i \in 1..MaxOverlap, email \in {"sent", "failed"} : HandleResumes(i, email)

SpecOverlap == Init /\ [][NextOverlap]_vars

\* C35: of two handle calls for the same ORDER_CREATED event, the second
\* started while the first was awaiting sendOrderConfirmation, at most one
\* reaches sendOrderConfirmation.
C35_OverlappingCallsSendOnce ==
  \A i, j \in 1..Len(handleCalls) :
    /\ i \in handleCalls[j].during
    /\ generateEventId(handleCalls[i].event) = generateEventId(handleCalls[j].event)
    => ~(handleCalls[i].entry = "send" /\ handleCalls[j].entry = "send")

----------------------------------------------------------------------------
(* A confirmation whose email send failed *)

\* The first event is delivered and its email send fails.
HandleFailing ==
  /\ stamp = 0
  /\ stamp' = 1
  /\ HandleEnds(FreshEvent(1), "failed")

NextRetry ==
  \/ HandleFailing
  \/ HandleFresh
  \/ \E n \in {1, stamp} : HandleAgain(n)

SpecRetry == Init /\ [][NextRetry]_vars

\* The fingerprint a step hands to handle while no new event is delivered:
\* a redelivery.
Redelivered(id) ==
  /\ stamp' = stamp
  /\ Len(recent') >= 1
  /\ recent'[Len(recent')] = id

\* C36 as stated: an event whose email send failed is marked, and no later
\* redelivery of it is ever processed again.
C36_FailedNeverAttemptedAgain ==
  [][\A id \in failed :
       Redelivered(id)
         => /\ processedEvents' = processedEvents
            /\ notificationHistory' = notificationHistory]_vars

\* C36 as amended: the handle call whose email send failed marks the event
\* (the first one delivered),
\* and a redelivery made while fewer than 500 other events were handled
\* successfully since is skipped and sends nothing.
C36_FailedSkippedInWindow ==
  /\ [][\A id \in failed' \ failed : has(processedEvents', id)]_vars
  /\ [][\A id \in failed :
          Redelivered(id) /\ stamp - 1 < DedupKeep
            => /\ has(processedEvents, id)
               /\ processedEvents' = processedEvents
               /\ notificationHistory' = notificationHistory]_vars

\* The event whose email send failed was delivered again.
C36_RetryWitness ==
  /\ generateEventId(FreshEvent(1)) \in failed
  /\ stamp = 2
  /\ recent = << generateEventId(FreshEvent(2)), generateEventId(FreshEvent(1)) >>
  /\ Len(processedEvents) = 2

----------------------------------------------------------------------------
(* processBatch *)

MaxBatch == 3

\* The offset of the first message of the batch.
BatchBase == 5

BatchRecords ==
  { WireRecord("object", "o1", Event("ORDER_CREATED", "o1", "t1", TRUE)),
    WireRecord("object", "o2", Event("ORDER_CREATED", "o2", "t1", TRUE)),
    WireRecord("invalid", "o3", NoEvent) }

Batches == UNION { [1..n -> BatchRecords] : n \in 1..MaxBatch }

\* processBatch(batch, resolveOffset, heartbeat) is called.
ProcessBatch(messages) ==
  /\ batchRun = NoBatchRun
  /\ pc = "idle"
  /\ batchRun' = BatchRun(messages, 1, << >>)
  /\ UNCHANGED <<notificationService, health, checked, pauseCalls, parseCall,
                 handleCalls, failed, replaced, appVars>>
  /\ UNCHANGED <<recordVars, orderVars, lifeVars>>

\* One turn of the loop: processMessage for the message at hand, from the
\* parse to the return or throw of handle, then resolveOffset when it
\* returned.  beat tells whether heartbeat() resolves, service and email how
\* the notification service and the email sender end, resolves whether
\* the resolveOffset handed in returns.
BatchMessage(beat, service, email, resolves) ==
  /\ batchRun.next \in 1..Len(batchRun.messages)
  /\ LET i        == batchRun.next
         n        == Len(batchRun.messages)
         at       == BatchBase + i - 1
         wire     == parseMessage(batchRun.messages[i])
         reached  == wire.ok /\ heartbeatOutcome(beat) = "returned"
         entry    == IF reached THEN handleEntry(processedEvents, wire.event)
                     ELSE "none"
         serviceOutcome ==
           IF service = "rejects" THEN "raised" ELSE confirmationOutcome(email)
         outcome  == IF ~reached THEN "raised"
                     ELSE IF entry = "send"
                          THEN handle(handleOrderCreated(serviceOutcome))
                          ELSE "returned"
         process  == processMessage(outcome)
         sends    == entry = "send" /\ service = "resolves"
         called   == Append(batchRun.trace, BatchCall("processMessage", at, process))
     IN  /\ notificationHistory' =
              IF sends
              THEN historyAfterConfirmation(notificationService, notificationHistory,
                                            wire.event.data, email)
              ELSE notificationHistory
         /\ processedEvents' =
              IF entry = "send" /\ outcome = "returned"
              THEN markProcessed(processedEvents, generateEventId(wire.event))
              ELSE processedEvents
         /\ batchRun' =
              IF process = "returned"
              THEN [batchRun EXCEPT
                      !.trace = Append(called,
                                  BatchCall("resolveOffset", at,
                                            IF resolves THEN "returned" ELSE "raised")),
                      !.next = IF resolves THEN i + 1 ELSE afterCatch(i, n)]
              ELSE [batchRun EXCEPT !.trace = called, !.next = afterCatch(i, n)]
  /\ UNCHANGED <<topic, offset, pc, cur, callbacks, stamp, recent>>
  /\ UNCHANGED <<notificationService, health, checked, pauseCalls, parseCall,
                 handleCalls, failed, replaced, appVars>>
  /\ UNCHANGED <<orderVars, lifeVars>>

NextBatch ==
  \/ \E messages \in Batches : ProcessBatch(messages)
  \/ \E beat, resolves \in BOOLEAN, service \in {"resolves", "rejects"},
        email \in {"sent", "failed"} : BatchMessage(beat, service, email, resolves)

SpecBatch == Init /\ [][NextBatch]_vars

\* The offsets handed to resolveOffset that it took, in the order of the calls.
Resolved ==
  LET took == { k \in 1..Len(batchRun.trace) :
                  /\ batchRun.trace[k].op = "resolveOffset"
                  /\ batchRun.trace[k].outcome = "returned" }
  IN  { batchRun.trace[k].at : k \in took }

\* The positions in the trace of the processMessage calls.
Processed == { k \in 1..Len(batchRun.trace) : batchRun.trace[k].op = "processMessage" }

\* C37: processBatch resolves the offsets of exactly a prefix of the batch;
\* every resolveOffset call comes directly after the processMessage call
\* for the same message and that call returned; messages are processed in
\* batch order; and after a processMessage call that failed the loop makes
\* no further call.
C37_BatchResolvesPrefix ==
  /\ [](LET trace == batchRun.trace
        IN  /\ \E m \in 0..Len(batchRun.messages) :
                 Resolved = { BatchBase + i - 1 : i \in 1..m }
            /\ \A k \in 1..Len(trace) :
                 trace[k].op = "resolveOffset"
                   => /\ k > 1
                      /\ trace[k - 1]
                           = BatchCall("processMessage", trace[k].at, "returned")
            /\ \A k \in Processed :
                 trace[k].at = BatchBase + Cardinality({ j \in Processed : j < k })
            /\ \A k \in Processed : trace[k].outcome = "raised" => k = Len(trace))
  /\ [][(\E k \in Processed : batchRun.trace[k].outcome = "raised")
          => batchRun' = batchRun]_vars

\* A batch of three whose second message failed after the first was resolved.
C37_Witness ==
  /\ Len(batchRun.messages) = 3
  /\ Len(batchRun.trace) = 3
  /\ batchRun.trace[2] = BatchCall("resolveOffset", BatchBase, "returned")
  /\ batchRun.trace[3] = BatchCall("processMessage", BatchBase + 1, "raised")
  /\ batchRun.next > Len(batchRun.messages)

----------------------------------------------------------------------------
(* start() called again *)

MaxRestarts == 1

\* start() is called on a consumer that was started before and not stopped:
\* line 23 assigns a new broker consumer to this.consumer.  The consumer
\* it held stays as it was, connected or not; nothing refers to it any more.
Restart ==
  /\ life = "idle"
  /\ consumer # null
  /\ startCall.outcome \in {"returned", "raised"}
  /\ stopCall = NoLifecycleCall
  /\ Len(replaced) < MaxRestarts
  /\ replaced' = Append(replaced, consumer)
  /\ consumer' = NewConsumer
  /\ life' = "connecting"
  /\ startCall' = LifecycleCall(<<"connect">>, pc, "none")
  /\ UNCHANGED <<isRunning, stopCall>>
  /\ UNCHANGED recordVars
  /\ UNCHANGED orderVars
  /\ UNCHANGED <<notificationService, health, checked, pauseCalls, parseCall,
                 handleCalls, failed, batchRun, appVars>>

NextRestart ==
  \/ Start
  \/ Restart
  \/ \E ok \in BOOLEAN : ConnectReturns(ok)
  \/ \E ok \in BOOLEAN : SubscribeReturns(ok)
  \/ \E ok \in BOOLEAN : RunReturns(ok)
  \/ Stop
  \/ \E ok \in BOOLEAN : DisconnectReturns(ok)

SpecRestart == Init /\ [][NextRestart]_vars

\* The connected broker consumers this OrderEventConsumer created.
Connected ==
  { i \in 1..Len(replaced) : replaced[i].connected }
    \cup (IF consumer.connected THEN {0} ELSE {})

\* C38: at most one broker consumer created by this OrderEventConsumer is
\* connected at any time, no connected one is left without a reference when
\* start() is called again, and after stop() returned none is connected.
C38_OneConnectedConsumer ==
  /\ Cardinality(Connected) <= 1
  /\ \A i \in 1..Len(replaced) : ~replaced[i].connected
  /\ stopCall.outcome = "returned" => Connected = {}

----------------------------------------------------------------------------
(* NotificationServiceApp: start, stop and the health check *)

MaxSignals == 2

\* main calls start(): it runs up to "await this.testKafkaConnection()".
AppStart ==
  /\ app.start = "none"
  /\ ~app.exited
  /\ app' = [app EXCEPT !.start = "testing"]
  /\ UNCHANGED <<appHealth, handleCalls, failed, batchRun, replaced>>
  /\ UNCHANGED <<notificationService, health, checked, pauseCalls, parseCall>>
  /\ UNCHANGED <<recordVars, orderVars, lifeVars>>

\* testKafkaConnection settles.  When it resolves, start() goes on through
\* initializeServices into orderEventConsumer.start(), up to its
\* "await this.consumer.connect()"; when it rejects, the catch of start()
\* exits the process.
TestReturns(ok) ==
  /\ app.start = "testing"
  /\ ~app.exited
  /\ IF ok
     THEN /\ app' = [app EXCEPT !.start = "consumer"]
          /\ consumer' = NewConsumer
          /\ life' = "connecting"
          /\ startCall' = LifecycleCall(<<"connect">>, pc, "none")
     ELSE /\ app' = [app EXCEPT !.exited = TRUE]
          /\ UNCHANGED <<consumer, life, startCall>>
  /\ UNCHANGED <<isRunning, stopCall>>
  /\ UNCHANGED <<appHealth, handleCalls, failed, batchRun, replaced>>
  /\ UNCHANGED <<notificationService, health, checked, pauseCalls, parseCall>>
  /\ UNCHANGED <<recordVars, orderVars>>

\* orderEventConsumer.start() throws at the step it is waiting for: its
\* catch sets isRunning to false, and the catch of the application's
\* start() exits the process.
AppStartFails ==
  /\ isRunning' = startFailure(isRunning)
  /\ life' = "idle"
  /\ startCall' = [startCall EXCEPT !.outcome = "raised"]
  /\ app' = [app EXCEPT !.exited = TRUE]
  /\ UNCHANGED consumer

\* A step of orderEventConsumer.start() settles while the application
\* awaits it: connect, subscribe, run.  When run() resolves, start()
\* returns and the application sets isStarted and starts the health check
\* interval, in the same turn of the event loop.
AppConsumerStep(ok) ==
  /\ app.start = "consumer"
  /\ ~app.exited
  /\ IF ~ok THEN AppStartFails
     ELSE IF life = "connecting"
     THEN /\ consumer' = [consumer EXCEPT !.connected = TRUE]
          /\ life' = "subscribing"
          /\ startCall' = [startCall EXCEPT !.steps = Append(@, "subscribe")]
          /\ UNCHANGED <<isRunning, app>>
     ELSE IF life = "subscribing"
     THEN /\ consumer' = [consumer EXCEPT !.topics = topics]
          /\ isRunning' = TRUE
          /\ life' = "starting"
          /\ startCall' = [startCall EXCEPT !.steps = @ \o <<"isRunning", "run">>]
          /\ UNCHANGED app
     ELSE /\ life = "starting"
          /\ consumer' = [consumer EXCEPT !.running = TRUE]
          /\ life' = "idle"
          /\ startCall' = [startCall EXCEPT !.outcome = "returned"]
          /\ app' = [app EXCEPT !.isStarted = TRUE, !.start = "returned"]
          /\ UNCHANGED isRunning
  /\ UNCHANGED stopCall
  /\ UNCHANGED <<appHealth, handleCalls, failed, batchRun, replaced>>
  /\ UNCHANGED <<notificationService, health, checked, pauseCalls, parseCall>>
  /\ UNCHANGED <<recordVars, orderVars>>

\* SIGINT or SIGTERM arrives, possibly a second one while the first stop()
\* is awaiting: the handler bound by the constructor calls stop().  It
\* clears isStarted, orderEventConsumer.stop() clears isRunning and, when a
\* broker consumer exists, awaits its disconnect; otherwise stop() resolves
\* and the handler exits the process.
AppStop ==
  /\ app.start # "none"
  /\ app.signals < MaxSignals
  /\ ~app.exited
  /\ isRunning' = FALSE
  /\ IF consumer # null
     THEN /\ app' = [app EXCEPT !.isStarted = FALSE, !.stop = "disconnecting",
                                !.signals = @ + 1]
          /\ stopCall' = LifecycleCall(<<"isRunning", "disconnect">>, pc, "none")
     ELSE /\ app' = [app EXCEPT !.isStarted = FALSE, !.signals = @ + 1,
                                !.exited = TRUE]
          /\ stopCall' = LifecycleCall(<<"isRunning">>, pc, "returned")
  /\ UNCHANGED <<consumer, life, startCall>>
  /\ UNCHANGED <<appHealth, handleCalls, failed, batchRun, replaced>>
  /\ UNCHANGED <<notificationService, health, checked, pauseCalls, parseCall>>
  /\ UNCHANGED <<recordVars, orderVars>>

\* The disconnect that stop() awaits settles, and the signal handler exits
\* the process.
AppDisconnectReturns(ok) ==
  /\ app.stop = "disconnecting"
  /\ ~app.exited
  /\ disconnectSettles(pc)
  /\ consumer' = [consumer EXCEPT !.running = FALSE,
                                  !.connected = IF ok THEN FALSE ELSE @,
                                  !.topics = IF ok THEN {} ELSE @]
  /\ stopCall' = [stopCall EXCEPT !.outcome = IF ok THEN "returned" ELSE "raised"]
  /\ app' = [app EXCEPT !.exited = TRUE]
  /\ UNCHANGED <<isRunning, life, startCall>>
  /\ UNCHANGED <<appHealth, handleCalls, failed, batchRun, replaced>>
  /\ UNCHANGED <<notificationService, health, checked, pauseCalls, parseCall>>
  /\ UNCHANGED <<recordVars, orderVars>>

\* The interval set by startHealthCheck fires: performHealthCheck().
PerformHealthCheck ==
  /\ app.start = "returned"
  /\ ~app.exited
  /\ appHealth' = Health(aggregate(app.isStarted, isHealthy), components(isHealthy),
                         app.isStarted, isHealthy, app.stop # "none")
  /\ UNCHANGED <<app, handleCalls, failed, batchRun, replaced>>
  /\ UNCHANGED <<notificationService, health, checked, pauseCalls, parseCall>>
  /\ UNCHANGED <<recordVars, orderVars, lifeVars>>

NextApp ==
  \/ AppStart
  \/ \E ok \in BOOLEAN : TestReturns(ok)
  \/ \E ok \in BOOLEAN : AppConsumerStep(ok)
  \/ AppStop
  \/ \E ok \in BOOLEAN : AppDisconnectReturns(ok)
  \/ PerformHealthCheck

SpecApp == Init /\ [][NextApp]_vars

\* C39: a health check reports UP exactly when the application has started
\* and the consumer is healthy; a health check made after stop() began
\* reports DOWN; and no health check reports UP with a component DOWN.
C39_HealthFollowsLifecycle ==
  appHealth # NoHealth
    => /\ appHealth.status = "UP"
            <=> (appHealth.isStarted /\ appHealth.consumerHealthy)
       /\ appHealth.status \in {"UP", "DOWN"}
       /\ appHealth.stopBegun => appHealth.status = "DOWN"
       /\ appHealth.status = "UP"
            => \A part \in DOMAIN appHealth.components :
                 appHealth.components[part] = "UP"

====
